---------------------------- MODULE Spec2Model ----------------------------
(***************************************************************************)
(* A model of the OpenVDB archive I/O engine (openvdb/io/Archive.cc) and   *)
(* of the grid registry and grid metadata accessors (openvdb/Grid.cc).     *)
(*                                                                         *)
(* Two state machines share the module:                                    *)
(*   SpecHeader  the header codec: Archive::writeHeader / readHeader on a  *)
(*               byte stream;                                              *)
(*   Spec        Archive::write of a list of grids followed by the read of *)
(*               every grid and the reconnection of instances.             *)
(* Streams of the header codec are sequences of bytes (0..255); 32-bit     *)
(* words are little-endian.  Character strings are sequences of character  *)
(* codes, and a C string ends at its first zero byte.                      *)
(***************************************************************************)
EXTENDS Integers, Sequences, FiniteSets, TLC

VARIABLES
    build,      \* which codecs the library was built with: "blosc", "zlib", "none"
    arch,       \* the Archive object's fields
    hs,         \* header codec: the byte stream
    hpos,       \* header codec: the stream position
    hsrc,       \* header codec: where the stream's bytes come from
    hres,       \* header codec: the outcome of the last call
    inp,        \* Archive::write's arguments and the reader's settings
    pc,         \* the statement the writer or the reader is at
    os,         \* the archive stream: the sequence of items written
    strm,       \* the stream's iword/pword slots and the StreamMetadata objects
    wr,         \* Archive::write's local variables
    descs,      \* the grid descriptors written so far, as they stand on disk
    entry,      \* the stream's state when the current per-grid call began
    rd,         \* the reader's variables: descriptors, grids and trees read
    err,        \* the exception that ended the write or the read, if any
    mf,         \* a MappedFile, the file it maps and what its calls did
    reg,        \* the grid registry, its mutex and the threads calling it
    ss          \* the StreamState registries and std::cout's extensible arrays

hvars == <<hs, hpos, hsrc, hres>>
wvars == <<inp, pc, os, strm, wr, descs, entry, rd, err>>
vars == <<build, arch, hs, hpos, hsrc, hres, inp, pc, os, strm, wr, descs, entry, rd, err, mf, reg, ss>>

-----------------------------------------------------------------------------
(* Program constants.                                                      *)

OPENVDB_MAGIC == 1447313952                       \* 0x56444220
OPENVDB_FILE_VERSION == 224
OPENVDB_LIBRARY_MAJOR_VERSION == 12
OPENVDB_LIBRARY_MINOR_VERSION == 0
OPENVDB_FILE_VERSION_GRID_INSTANCING == 216
OPENVDB_FILE_VERSION_BOOST_UUID == 218
OPENVDB_FILE_VERSION_NO_GRIDMAP == 219
OPENVDB_FILE_VERSION_SELECTIVE_COMPRESSION == 220
OPENVDB_FILE_VERSION_NODE_MASK_COMPRESSION == 222
OPENVDB_FILE_VERSION_BLOSC_COMPRESSION == 223

COMPRESS_NONE == 0
COMPRESS_ZIP == 1
COMPRESS_ACTIVE_MASK == 2
COMPRESS_BLOSC == 4

-----------------------------------------------------------------------------
(* Bit sets and 32-bit unsigned arithmetic.                                *)

RECURSIVE BitAnd(_, _)
BitAnd(a, b) ==
    IF a = 0 \/ b = 0 THEN 0
    ELSE (IF a % 2 = 1 /\ b % 2 = 1 THEN 1 ELSE 0) + 2 * BitAnd(a \div 2, b \div 2)

RECURSIVE BitOr(_, _)
BitOr(a, b) ==
    IF a = 0 THEN b
    ELSE IF b = 0 THEN a
    ELSE (IF a % 2 = 1 \/ b % 2 = 1 THEN 1 ELSE 0) + 2 * BitOr(a \div 2, b \div 2)

\* a & ~b
BitClear(a, b) == a - BitAnd(a, b)

\* k * a modulo 2^32 for a small k, computed on 16-bit halves.
MulU32(k, a) ==
    LET lo == k * (a % 65536)
        hi == (k * (a \div 65536) + (lo \div 65536)) % 65536
    IN  hi * 65536 + (lo % 65536)

\* a + b modulo 2^32, computed on 16-bit halves.
AddU32(a, b) ==
    LET lo == (a % 65536) + (b % 65536)
        hi == ((a \div 65536) + (b \div 65536) + (lo \div 65536)) % 65536
    IN  hi * 65536 + (lo % 65536)

-----------------------------------------------------------------------------
(* Bytes.                                                                  *)

LE32(n) == << n % 256, (n \div 256) % 256, (n \div 65536) % 256, (n \div 16777216) % 256 >>

\* An int64 whose value fits 32 bits, as os.write lays it out.
LE64(n) == LE32(n) \o <<0, 0, 0, 0>>

\* is.read(buf, n) at position p (0-based): the next n bytes.
Rd(s, p, n) == SubSeq(s, p + 1, p + n)

U32At(s, p) == s[p + 1] + 256 * s[p + 2] + 65536 * s[p + 3] + 16777216 * s[p + 4]

RECURSIVE CStr(_)
\* std::string(const char*): the characters before the first zero byte.
CStr(b) == IF b = <<>> \/ Head(b) = 0 THEN <<>> ELSE <<Head(b)>> \o CStr(Tail(b))

HYPHEN == 45

\* The to_hex lambda of readHeader and writeHeader.
to_hex(c) ==
    LET d == c % 16
    IN  IF d < 10 THEN 48 + d ELSE d - 10 + 65

-----------------------------------------------------------------------------
(* The Archive object.                                                     *)

DEFAULT_COMPRESSION_FLAGS(b) ==
    IF b = "blosc" THEN BitOr(COMPRESS_BLOSC, COMPRESS_ACTIVE_MASK)
    ELSE IF b = "zlib" THEN BitOr(COMPRESS_ZIP, COMPRESS_ACTIVE_MASK)
    ELSE COMPRESS_ACTIVE_MASK

\* Archive::Archive()
NewArchive(b) ==
    [ mFileVersion         |-> OPENVDB_FILE_VERSION,
      mLibMajor            |-> OPENVDB_LIBRARY_MAJOR_VERSION,
      mLibMinor            |-> OPENVDB_LIBRARY_MINOR_VERSION,
      mUuid                |-> <<>>,
      mInputHasGridOffsets |-> FALSE,
      mEnableInstancing    |-> TRUE,
      mCompression         |-> DEFAULT_COMPRESSION_FLAGS(b),
      mEnableGridStats     |-> TRUE ]

\* Archive::isIdentical
isIdentical(a, uuidStr) ==
    IF uuidStr = <<>> THEN FALSE
    ELSE IF a.mUuid = <<>> THEN FALSE
    ELSE uuidStr = a.mUuid

NoError == "none"
\* The grid registry and the threads that call it.
NumThreads == 2
Threads == 1..NumThreads
GridTypeNames == {"FloatGrid", "BoolGrid"}
EmptyFactoryMap == [n \in {} |-> 0]
IdleThread ==
    [ pc |-> "idle", op |-> "none", name |-> "", factory |-> 0, found |-> FALSE,
      result |-> "none", before |-> EmptyFactoryMap, nops |-> 0 ]
\* getGridRegistry(): the function-local static, an empty map and a free mutex
\* (0).  registered counts, per name, the registerGrid calls that succeeded
\* since the name was last absent, and last is the last operation that
\* succeeded in changing or setting the name's entry.
NewRegistry ==
    [ mMap |-> EmptyFactoryMap, mMutex |-> 0, th |-> [t \in Threads |-> IdleThread],
      registered |-> [n \in GridTypeNames |-> 0],
      last |-> [n \in GridTypeNames |-> "none"] ]
\* The StreamState registries of the copies of the library in the process.
MaxStreamStates == 3
NoStreamState ==
    [ state |-> "none", current |-> FALSE, magicNumber |-> 0, fileVersion |-> 0,
      libraryMajorVersion |-> 0, libraryMinorVersion |-> 0, dataCompression |-> 0,
      writeGridStatsMetadata |-> 0, gridBackground |-> 0, gridClass |-> 0,
      halfFloat |-> 0, mappedFile |-> 0, metadata |-> 0 ]
\* Before any copy of the library is loaded: std::cout's arrays have no
\* entry (entry i of cout is the word and the pointer at index i - 1), and
\* other code has reserved no index.
NoStreamStates ==
    [ cout |-> <<>>, regs |-> [id \in 1..MaxStreamStates |-> NoStreamState], others |-> 0 ]
\* No MappedFile has been constructed.
NoMappedFile ==
    [ state |-> "none", filename |-> "", mAutoDelete |-> FALSE, mNotifier |-> 0,
      posix |-> FALSE, onDisk |-> FALSE, log |-> <<>>, err |-> NoError,
      calls |-> 0, envSteps |-> 0, buffers |-> 0, lastRead |-> "none" ]
\* OPENVDB_THROW(IoError, "not a VDB file")
NotAVdbFile == "IoError: not a VDB file"


-----------------------------------------------------------------------------
(* Archive::readHeader.  a is the archive before the call, s the stream's  *)
(* bytes and p0 the position the read starts at.  The result holds the     *)
(* archive after the call, the position reached, the exception thrown (or  *)
(* NoError), the value returned and whether the future-version warning was *)
(* logged.                                                                 *)

\* Step 6 for versions before OPENVDB_FILE_VERSION_BOOST_UUID: 16 raw bytes
\* printed as 32 hexadecimal characters.
RECURSIVE HexOfBytes(_)
HexOfBytes(b) ==
    IF b = <<>> THEN <<>>
    ELSE << to_hex(Head(b) \div 16), to_hex(Head(b)) >> \o HexOfBytes(Tail(b))

\* Step 2, the mutant: the minor word is added without its factor of ten.
ReadFileVersionMinorUnscaled(s, p) ==
    LET v == U32At(s, p)
    IN  IF v > OPENVDB_FILE_VERSION THEN [version |-> v, pos |-> p + 4, warn |-> TRUE]
        ELSE IF v < 211
        THEN [ version |-> AddU32(AddU32(MulU32(100, v), U32At(s, p + 4)),
                                  U32At(s, p + 8)),
               pos |-> p + 12, warn |-> FALSE ]
        ELSE [version |-> v, pos |-> p + 4, warn |-> FALSE]

\* Step 2: the file format version and the bytes it takes.
ReadFileVersion(s, p) ==
    LET v == U32At(s, p)
    IN  IF v > OPENVDB_FILE_VERSION THEN [version |-> v, pos |-> p + 4, warn |-> TRUE]
        ELSE IF v < 211
        THEN [ version |-> AddU32(AddU32(MulU32(100, v), MulU32(10, U32At(s, p + 4))),
                                  U32At(s, p + 8)),
               pos |-> p + 12, warn |-> FALSE ]
        ELSE [version |-> v, pos |-> p + 4, warn |-> FALSE]

\* Step 3: the library version, stored from file version 211 on.
ReadLibraryVersion(s, p, fv) ==
    IF fv >= 211
    THEN [major |-> U32At(s, p), minor |-> U32At(s, p + 4), pos |-> p + 8]
    ELSE [major |-> 0, minor |-> 0, pos |-> p]

\* Step 4, the mutant: only the low bit of the flag byte counts.
ReadHasGridOffsetsLowBit(s, p, fv) ==
    IF fv >= 212
    THEN [flag |-> (s[p + 1] % 2 = 1), pos |-> p + 1]
    ELSE [flag |-> TRUE, pos |-> p]

\* Step 4: the has-grid-offsets flag, stored from file version 212 on.
ReadHasGridOffsets(s, p, fv) ==
    IF fv >= 212
    THEN [flag |-> (s[p + 1] # 0), pos |-> p + 1]
    ELSE [flag |-> TRUE, pos |-> p]

\* Step 5, the mutant: pre-Blosc files keep the library's default flags.
ReadCompressionNoForce(s, p, fv, b) ==
    IF fv >= OPENVDB_FILE_VERSION_SELECTIVE_COMPRESSION
       /\ fv < OPENVDB_FILE_VERSION_NODE_MASK_COMPRESSION
    THEN [ compression |-> IF s[p + 1] # 0 THEN COMPRESS_ZIP ELSE COMPRESS_NONE,
           pos |-> p + 1 ]
    ELSE [compression |-> DEFAULT_COMPRESSION_FLAGS(b), pos |-> p]

\* Step 5: the archive-level compression flags.
ReadCompression(s, p, fv, b) ==
    LET c0 == IF fv < OPENVDB_FILE_VERSION_BLOSC_COMPRESSION
              THEN BitOr(COMPRESS_ZIP, COMPRESS_ACTIVE_MASK)
              ELSE DEFAULT_COMPRESSION_FLAGS(b)
    IN  IF fv >= OPENVDB_FILE_VERSION_SELECTIVE_COMPRESSION
           /\ fv < OPENVDB_FILE_VERSION_NODE_MASK_COMPRESSION
        THEN [ compression |-> IF s[p + 1] # 0 THEN COMPRESS_ZIP ELSE COMPRESS_NONE,
               pos |-> p + 1 ]
        ELSE [compression |-> c0, pos |-> p]

\* Step 6: the UUID.
ReadUuid(s, p, fv) ==
    IF fv >= OPENVDB_FILE_VERSION_BOOST_UUID
    THEN [uuid |-> CStr(Rd(s, p, 16 * 2 + 4)), pos |-> p + 16 * 2 + 4]
    ELSE [uuid |-> CStr(HexOfBytes(Rd(s, p, 16))), pos |-> p + 16]

\* The value returned, the mutant: the result of isIdentical instead of its
\* negation.
HeaderDiffersSwapped(oldUuid, newUuid) ==
    IF oldUuid = <<>> \/ newUuid = <<>> THEN FALSE ELSE oldUuid = newUuid

\* The value returned: true if the UUID read differs from the old one.
HeaderDiffers(oldUuid, newUuid) ==
    IF oldUuid = <<>> \/ newUuid = <<>> THEN TRUE ELSE oldUuid # newUuid

\* The magic check, the mutant: the version word is read before the check.
MagicFailureLate(a, s, p0) ==
    [ arch |-> [a EXCEPT !.mFileVersion = U32At(s, p0 + 8)], pos |-> p0 + 12,
      err |-> NotAVdbFile, ret |-> FALSE, warn |-> FALSE ]

\* Step 1 when the magic number does not match: the exception leaves the
\* archive as it was.
MagicFailure(a, s, p0) ==
    [arch |-> a, pos |-> p0 + 8, err |-> NotAVdbFile, ret |-> FALSE, warn |-> FALSE]

ReadHeader(a, s, p0, b) ==
    IF Rd(s, p0, 8) # LE64(OPENVDB_MAGIC) THEN MagicFailure(a, s, p0)
    ELSE
    LET fv  == ReadFileVersion(s, p0 + 8)
        lib == ReadLibraryVersion(s, fv.pos, fv.version)
        off == ReadHasGridOffsets(s, lib.pos, fv.version)
        cmp == ReadCompression(s, off.pos, fv.version, b)
        uu  == ReadUuid(s, cmp.pos, fv.version)
    IN  [ arch |-> [a EXCEPT !.mFileVersion = fv.version,
                             !.mLibMajor = lib.major,
                             !.mLibMinor = lib.minor,
                             !.mInputHasGridOffsets = off.flag,
                             !.mCompression = cmp.compression,
                             !.mUuid = uu.uuid],
          pos  |-> uu.pos,
          err  |-> NoError,
          ret  |-> HeaderDiffers(a.mUuid, uu.uuid),
          warn |-> fv.warn ]

-----------------------------------------------------------------------------
(* Archive::writeHeader.  draws are the four values of std::random_device, *)
(* failAt the draw that throws (0: none does) and g the byte an            *)
(* uninitialised element of uuidStr holds.                                 *)

Swap(f, i, j) == [f EXCEPT ![i] = f[j], ![j] = f[i]]

\* The try block, the mutant: the catch block leaves the buffer as it is.
UuidDrawnNotBlanked(draws, failAt, g) ==
    LET n == IF failAt = 0 THEN 4 ELSE failAt - 1
    IN  [ k \in 0..36 |->
            IF k < 8 * n
            THEN to_hex(draws[(k \div 8) + 1] \div (16 ^ (k % 8)))
            ELSE g ]

\* The try block: eight hexadecimal characters per completed draw, low
\* nibble first; the catch block zeroes the first character.
UuidDrawn(draws, failAt, g) ==
    LET n == IF failAt = 0 THEN 4 ELSE failAt - 1
        filled == [ k \in 0..36 |->
                      IF k < 8 * n
                      THEN to_hex(draws[(k \div 8) + 1] \div (16 ^ (k % 8)))
                      ELSE g ]
    IN  IF failAt = 0 THEN filled ELSE [filled EXCEPT ![0] = 0]

\* "Insert our hyphens", the mutant: the hyphens are swapped to every
\* fourth character after the eighth.
UuidHyphenatedUnshifted(u) ==
    LET h  == [k \in 0..36 |-> IF k \in 32..35 THEN HYPHEN ELSE u[k]]
        s0 == Swap(h, 16 * 2 + 0, 8)
        s1 == Swap(s0, 16 * 2 + 1, 12)
        s2 == Swap(s1, 16 * 2 + 2, 16)
        s3 == Swap(s2, 16 * 2 + 3, 20)
    IN  [s3 EXCEPT ![16 * 2 + 4] = 0]

\* "Insert our hyphens": four hyphens appended and swapped into place.
UuidHyphenated(u) ==
    LET h  == [k \in 0..36 |-> IF k \in 32..35 THEN HYPHEN ELSE u[k]]
        s0 == Swap(h, 16 * 2 + 0, 8 + 0)
        s1 == Swap(s0, 16 * 2 + 1, 12 + 1)
        s2 == Swap(s1, 16 * 2 + 2, 16 + 2)
        s3 == Swap(s2, 16 * 2 + 3, 20 + 3)
    IN  [s3 EXCEPT ![16 * 2 + 4] = 0]

\* The flag byte, the mutant: always 1.
HasGridOffsetsByteSet(seekable) == 1

\* char hasGridOffsets = seekable
HasGridOffsetsByte(seekable) == IF seekable THEN 1 ELSE 0

\* The bytes put on the stream and the archive's new (mutable) mUuid.
WriteHeader(a, seekable, draws, failAt, g) ==
    LET u == UuidHyphenated(UuidDrawn(draws, failAt, g))
    IN  [ bytes |-> LE64(OPENVDB_MAGIC)
                    \o LE32(OPENVDB_FILE_VERSION)
                    \o LE32(OPENVDB_LIBRARY_MAJOR_VERSION)
                    \o LE32(OPENVDB_LIBRARY_MINOR_VERSION)
                    \o <<HasGridOffsetsByte(seekable)>>
                    \o [k \in 1..(16 * 2 + 4) |-> u[k - 1]],
          arch  |-> [a EXCEPT !.mUuid = CStr([k \in 1..37 |-> u[k - 1]])] ]


-----------------------------------------------------------------------------
(* The header codec as a state machine: an archive, and one stream that is *)
(* either written by writeHeader or holds the header of a file found on    *)
(* disk, and is then read by readHeader from its start.                    *)

\* Values std::random_device may return (bit 31 clear).
DrawSeqs ==
    { <<0, 0, 0, 0>>,
      <<180150009, 19088743, 2147483647, 0>>,   \* 0x0ABCDEF9 0x01234567 0x7FFFFFFF 0
      <<19088743, 19088743, 180150009, 1>> }
\* The number of random words writeHeader draws.
NumDraws == 4
\* Bytes an uninitialised element of uuidStr may hold.
Garbage == {0, 97}

\* File headers found on disk.  Each is laid out as the writer of its file
\* version laid it out, followed by the first bytes of the archive body.
UuidA == [k \in 1..36 |-> IF k \in {9, 14, 19, 24} THEN HYPHEN ELSE 65]
UuidB == [k \in 1..36 |-> IF k \in {9, 14, 19, 24} THEN HYPHEN ELSE 48 + (k % 10)]
UuidBlank == [k \in 1..36 |-> IF k = 1 THEN 0 ELSE 97]
RawA == [k \in 1..16 |-> 170]
RawB == [k \in 1..16 |-> 16 * (k - 1) + 1]
Body == <<7, 0, 0, 0, 1, 2, 3, 4, 5, 6, 7, 8>>

\* The version words of the files, one word from version 211 on and three
\* (major, minor, patch) before, with the file version they stand for.
FileVersions ==
    { [w |-> <<v>>, v |-> v] :
        v \in {211, 212, 217, 218, 219, 220, 221, 222, 223, 224, 225} }
    \cup
    { [w |-> <<2, 0, 0>>, v |-> 200], [w |-> <<2, 0, 9>>, v |-> 209],
      [w |-> <<2, 1, 0>>, v |-> 210], [w |-> <<2, 1, 1>>, v |-> 211],
      [w |-> <<2, 2, 0>>, v |-> 220], [w |-> <<2, 2, 2>>, v |-> 222],
      [w |-> <<2, 429496730, 5>>, v |-> 209], [w |-> <<0, 22, 4>>, v |-> 224] }

RECURSIVE Words(_)
Words(w) == IF w = <<>> THEN <<>> ELSE LE32(Head(w)) \o Words(Tail(w))

FileHeader(magic, f, lib, flag, comp, uuid) ==
    LET v == f.v
    IN  LE64(magic) \o Words(f.w)
        \o (IF v >= 211 THEN LE32(lib[1]) \o LE32(lib[2]) ELSE <<>>)
        \o (IF v >= 212 THEN <<flag>> ELSE <<>>)
        \o (IF v \in {220, 221} THEN <<comp>> ELSE <<>>)
        \o (IF v >= 218 THEN (IF uuid = "A" THEN UuidA
                              ELSE IF uuid = "B" THEN UuidB ELSE UuidBlank)
            ELSE (IF uuid = "A" THEN RawA ELSE RawB))
        \o Body

FileHeaders ==
    { FileHeader(OPENVDB_MAGIC, f, lib, flag, comp, uuid) :
        f \in FileVersions, lib \in {<<6, 1>>, <<12, 0>>}, flag \in {0, 1, 2},
        comp \in {0, 1}, uuid \in {"A", "B", "blank"} }
    \cup
    { FileHeader(magic, f, <<12, 0>>, 1, 1, "A") :
        magic \in {0, OPENVDB_MAGIC + 1}, f \in {x \in FileVersions : x.v \in {210, 220, 224}} }

NoResult ==
    [ op |-> "none", ret |-> FALSE, err |-> NoError, warn |-> FALSE, start |-> 0,
      pre |-> NewArchive("blosc") ]

\* UUIDs an archive may hold from a header it read or wrote earlier.
PriorUuids == {<<>>, UuidA, HexOfBytes(RawA)}

\* A default-constructed archive, or one that has read a header before.
HInit ==
    /\ build \in {"blosc", "zlib", "none"}
    /\ arch \in {[NewArchive(build) EXCEPT !.mUuid = u] : u \in PriorUuids}
    /\ hs = <<>>
    /\ hpos = 0
    /\ hsrc = [kind |-> "none", seekable |-> FALSE, failAt |-> 0]
    /\ hres = NoResult
    /\ pc = "idle"
    /\ inp = <<>> /\ os = <<>> /\ strm = <<>> /\ wr = <<>>
    /\ descs = <<>> /\ entry = <<>> /\ rd = <<>> /\ err = NoError
    /\ mf = NoMappedFile
    /\ reg = NewRegistry
    /\ ss = NoStreamStates

\* Archive::writeHeader on an empty output stream; the stream is then
\* reopened for reading.
HWriteHeader ==
    /\ hsrc.kind = "none"
    /\ \E seekable \in BOOLEAN, draws \in DrawSeqs, failAt \in 0..NumDraws, g \in Garbage :
        LET w == WriteHeader(arch, seekable, draws, failAt, g)
        IN  /\ hs' = w.bytes
            /\ hpos' = 0
            /\ arch' = w.arch
            /\ hsrc' = [kind |-> "written", seekable |-> seekable, failAt |-> failAt]
            /\ hres' = [ op |-> "write", ret |-> FALSE, err |-> NoError, warn |-> FALSE,
                         start |-> 0, pre |-> arch ]
            /\ UNCHANGED <<ss, reg, mf, build, wvars>>

\* A file found on disk is opened.
HOpenFile ==
    /\ hsrc.kind = "none"
    /\ \E s \in FileHeaders :
        /\ hs' = s
        /\ hpos' = 0
        /\ hsrc' = [kind |-> "file", seekable |-> FALSE, failAt |-> 0]
        /\ hres' = NoResult
        /\ UNCHANGED <<ss, reg, mf, build, arch, wvars>>

\* Archive::readHeader from the start of the stream.
HReadHeader ==
    /\ hs # <<>>
    /\ hpos = 0
    /\ LET r == ReadHeader(arch, hs, hpos, build)
       IN  /\ arch' = r.arch
           /\ hpos' = r.pos
           /\ hres' = [ op |-> "read", ret |-> r.ret, err |-> r.err, warn |-> r.warn,
                        start |-> hpos, pre |-> arch ]
    /\ UNCHANGED <<ss, reg, mf, build, hs, hsrc, wvars>>

\* The stream is rewound (the file is opened again) for another read.
HRewind ==
    /\ hpos # 0
    /\ hpos' = 0
    /\ hres' = NoResult
    /\ UNCHANGED <<ss, reg, mf, build, arch, hs, hsrc, wvars>>

HNext == HWriteHeader \/ HOpenFile \/ HReadHeader \/ HRewind

SpecHeader == HInit /\ [][HNext]_vars


-----------------------------------------------------------------------------
(* Properties of the header codec (checked under SpecHeader).              *)

HeaderRead == hres.op = "read"
HeaderReadOk == hres.op = "read" /\ hres.err = NoError

\* C7: readHeader on a stream whose first 64-bit word is not OPENVDB_MAGIC
\* throws "not a VDB file", has read the magic word and nothing after it, and
\* leaves every field of the archive as it was before the call.
C7_BadMagicFailsCleanly ==
    (HeaderRead /\ Rd(hs, hres.start, 8) # LE64(OPENVDB_MAGIC))
        => /\ hres.err = NotAVdbFile
           /\ hpos = hres.start + 8
           /\ arch = hres.pre

\* C7 witness: a header with a foreign magic word was read by an archive
\* that held a UUID.
C7_Witness ==
    /\ HeaderRead
    /\ hres.err = NotAVdbFile
    /\ hres.pre.mUuid # <<>>
    /\ U32At(hs, 0) # OPENVDB_MAGIC

\* The fields readHeader leaves after reading a header that writeHeader(b)
\* produced, the UUID apart.
WrittenHeaderReadBack ==
    /\ hres.err = NoError
    /\ hpos = 8 + 4 + 4 + 4 + 1 + 36
    /\ hpos = Len(hs)
    /\ arch.mFileVersion = OPENVDB_FILE_VERSION
    /\ arch.mLibMajor = OPENVDB_LIBRARY_MAJOR_VERSION
    /\ arch.mLibMinor = OPENVDB_LIBRARY_MINOR_VERSION
    /\ arch.mInputHasGridOffsets = hsrc.seekable

\* C8 as stated: a header written by writeHeader(os, b) is read back without
\* error, readHeader consumes exactly the 57 bytes written, and the archive
\* holds the current versions, has-grid-offsets = b and the 36 characters
\* written as its UUID.
C8_Original ==
    (HeaderRead /\ hsrc.kind = "written")
        => /\ WrittenHeaderReadBack
           /\ arch.mUuid = Rd(hs, 21, 36)

\* C8 as amended: the same, with the UUID equal to the 36 characters written
\* when the entropy source did not fail, and blank when it failed (the first
\* of the 36 bytes written is then zero).
C8_Amended ==
    (HeaderRead /\ hsrc.kind = "written")
        => /\ WrittenHeaderReadBack
           /\ hsrc.failAt = 0 => arch.mUuid = Rd(hs, 21, 36)
           /\ hsrc.failAt # 0 => (arch.mUuid = <<>> /\ hs[22] = 0)

\* C8 witness: a header written for a non-seekable stream, with entropy
\* available, was read back.
C8_Witness ==
    /\ HeaderReadOk
    /\ hsrc.kind = "written"
    /\ ~hsrc.seekable
    /\ hsrc.failAt = 0
    /\ Len(arch.mUuid) = 36

\* C9: readHeader returns true iff the UUID it read differs from the UUID the
\* archive held before the call or one of the two is blank; it returns false
\* exactly when both are non-empty and equal.
C9_ReturnsWhetherUuidDiffers ==
    HeaderReadOk
        => /\ hres.ret <=> \/ arch.mUuid # hres.pre.mUuid
                           \/ arch.mUuid = <<>>
                           \/ hres.pre.mUuid = <<>>
           /\ ~hres.ret <=> /\ arch.mUuid # <<>>
                            /\ hres.pre.mUuid # <<>>
                            /\ arch.mUuid = hres.pre.mUuid

\* C9 witness: a header was read whose UUID the archive already held.
C9_Witness ==
    /\ HeaderReadOk
    /\ ~hres.ret
    /\ arch.mUuid # <<>>

\* C10 as stated: after a successful readHeader a file version below
\* OPENVDB_FILE_VERSION_BLOSC_COMPRESSION leaves the archive's compression at
\* exactly ZIP | ACTIVE_MASK.
C10_Original ==
    (HeaderReadOk /\ arch.mFileVersion < OPENVDB_FILE_VERSION_BLOSC_COMPRESSION)
        => arch.mCompression = BitOr(COMPRESS_ZIP, COMPRESS_ACTIVE_MASK)

InSelectiveRange(v) ==
    /\ v >= OPENVDB_FILE_VERSION_SELECTIVE_COMPRESSION
    /\ v < OPENVDB_FILE_VERSION_NODE_MASK_COMPRESSION

\* C10 as amended: after a successful readHeader a file version below
\* OPENVDB_FILE_VERSION_BLOSC_COMPRESSION and outside [selective-compression,
\* node-mask-compression) leaves the compression at exactly ZIP | ACTIVE_MASK;
\* a version inside that range leaves it at ZIP when the is-compressed byte
\* (the byte before the 36 UUID characters) is non-zero and at NONE otherwise.
C10_Amended ==
    HeaderReadOk
        => /\ (arch.mFileVersion < OPENVDB_FILE_VERSION_BLOSC_COMPRESSION
               /\ ~InSelectiveRange(arch.mFileVersion))
                  => arch.mCompression = BitOr(COMPRESS_ZIP, COMPRESS_ACTIVE_MASK)
           /\ InSelectiveRange(arch.mFileVersion)
                  => arch.mCompression =
                        (IF hs[hpos - 36] # 0 THEN COMPRESS_ZIP ELSE COMPRESS_NONE)

\* C10 witness: a header of file version 220 or 221 with the is-compressed
\* byte set was read.
C10_Witness ==
    /\ HeaderReadOk
    /\ InSelectiveRange(arch.mFileVersion)
    /\ arch.mCompression = COMPRESS_ZIP

\* The words and bytes of the header just read, located from the start of the
\* read: the first version word, the number of version words, and the sizes
\* of the fields whose presence depends on the file version fv.
FirstVersionWord == U32At(hs, hres.start + 8)
VersionWordCount == IF FirstVersionWord < 211 THEN 3 ELSE 1
LibraryBytes(fv) == IF fv >= 211 THEN 8 ELSE 0
FlagBytes(fv) == IF fv >= 212 THEN 1 ELSE 0
CompressionBytes(fv) == IF InSelectiveRange(fv) THEN 1 ELSE 0
UuidBytes(fv) == IF fv >= OPENVDB_FILE_VERSION_BOOST_UUID THEN 36 ELSE 16
\* The position of the stream before step 4 of the read.
FlagPos == hres.start + 8 + 4 * VersionWordCount + LibraryBytes(arch.mFileVersion)
\* The bytes readHeader took after step 4.
BytesAfterFlag == CompressionBytes(arch.mFileVersion) + UuidBytes(arch.mFileVersion)

\* C11: after a successful readHeader, a file version below 212 leaves
\* has-grid-offsets true with no flag byte consumed; a version of 212 or above
\* has consumed exactly one flag byte and has-grid-offsets is true iff that
\* byte is non-zero.
C11_GridOffsetsFlag ==
    HeaderReadOk
        => /\ arch.mFileVersion < 212
                => /\ arch.mInputHasGridOffsets
                   /\ hpos = FlagPos + BytesAfterFlag
           /\ arch.mFileVersion >= 212
                => /\ hpos = FlagPos + 1 + BytesAfterFlag
                   /\ arch.mInputHasGridOffsets <=> (hs[FlagPos + 1] # 0)

\* C11 witness: a header of version 212 or above whose flag byte is neither 0
\* nor 1 was read.
C11_Witness ==
    /\ HeaderReadOk
    /\ arch.mFileVersion >= 212
    /\ hs[FlagPos + 1] = 2
    /\ arch.mInputHasGridOffsets

\* The three legacy version words folded in 32-bit unsigned arithmetic.
FoldedVersion ==
    AddU32(AddU32(MulU32(100, FirstVersionWord), MulU32(10, U32At(hs, hres.start + 12))),
           U32At(hs, hres.start + 16))

\* The header just read has the magic number and a legacy version triple.
LegacyHeaderRead ==
    /\ HeaderRead
    /\ Rd(hs, hres.start, 8) = LE64(OPENVDB_MAGIC)
    /\ FirstVersionWord < 211

\* C12: a first version word v below 211 makes readHeader take two more words
\* and set the file version to 100*v + 10*v2 + v3 modulo 2^32, and the
\* library-version words, the grid-offsets byte, the compression byte and the
\* UUID encoding all follow the folded value; a first word of 211 or above is
\* the file version and no extra word is taken.  A legacy header folding into
\* 200..210 is read without error.
C12_LegacyVersionFold ==
    /\ HeaderReadOk
        => LET fv == arch.mFileVersion
           IN  /\ FirstVersionWord < 211 => fv = FoldedVersion
               /\ FirstVersionWord >= 211 => fv = FirstVersionWord
               /\ hpos = hres.start + 8 + 4 * VersionWordCount + LibraryBytes(fv)
                           + FlagBytes(fv) + CompressionBytes(fv) + UuidBytes(fv)
               /\ fv < 211 => (arch.mLibMajor = 0 /\ arch.mLibMinor = 0)
               /\ fv >= 211 => arch.mLibMajor = U32At(hs, hres.start + 8 + 4 * VersionWordCount)
               /\ fv < 212 => arch.mInputHasGridOffsets
               /\ arch.mUuid = CStr(IF fv >= OPENVDB_FILE_VERSION_BOOST_UUID
                                    THEN Rd(hs, hpos - 36, 36)
                                    ELSE HexOfBytes(Rd(hs, hpos - 16, 16)))
    /\ (LegacyHeaderRead /\ FoldedVersion \in 200..210) => hres.err = NoError

\* C12 witness: a legacy triple whose minor word wraps around 2^32 when
\* multiplied by ten was read and folded into 209.
C12_Witness ==
    /\ HeaderReadOk
    /\ LegacyHeaderRead
    /\ U32At(hs, hres.start + 12) > 10
    /\ arch.mFileVersion = 209
    /\ Len(arch.mUuid) = 32

\* writeHeader has just returned / the header it wrote is on the stream.
HeaderWritten == hres.op = "write"
\* The 36 UUID bytes of a header written by writeHeader.
WrittenUuid == Rd(hs, 8 + 4 + 4 + 4 + 1, 36)
\* '0'..'9' or 'A'..'F'
IsUpperHexDigit(c) == c \in 48..57 \/ c \in 65..70

\* C18: when the entropy source does not fail, writeHeader writes exactly 36
\* UUID characters with '-' at positions 8, 13, 18 and 23 (from 0) and an
\* uppercase hexadecimal digit at each of the other 32 positions, and the
\* archive's UUID equals those 36 characters.
C18_UuidShape ==
    (HeaderWritten /\ hsrc.failAt = 0)
        => /\ Len(hs) = 8 + 4 + 4 + 4 + 1 + 36
           /\ \A k \in 0..35 :
                IF k \in {8, 13, 18, 23} THEN WrittenUuid[k + 1] = HYPHEN
                ELSE IsUpperHexDigit(WrittenUuid[k + 1])
           /\ arch.mUuid = WrittenUuid

\* C18 witness: a header was written from draws that give both decimal digits
\* and letters.
C18_Witness ==
    /\ HeaderWritten
    /\ hsrc.failAt = 0
    /\ \E j, k \in 1..8 : WrittenUuid[j] \in 48..57 /\ WrittenUuid[k] \in 65..70

\* Arguments passed to isIdentical.
IdenticalArgs == PriorUuids \cup {WrittenUuid, CStr(WrittenUuid), Rd(WrittenUuid, 1, 35)}

\* C19: when the entropy source fails at any of the four draws, writeHeader
\* still returns normally having written 36 UUID bytes of which the first is
\* zero, the archive's UUID is blank, isIdentical is false for every argument,
\* and a readHeader of the written header returns true.
C19_EntropyFailure ==
    (hsrc.kind = "written" /\ hsrc.failAt # 0)
        => /\ hres.err = NoError
           /\ Len(hs) = 8 + 4 + 4 + 4 + 1 + 36
           /\ WrittenUuid[1] = 0
           /\ arch.mUuid = <<>>
           /\ \A u \in IdenticalArgs : ~isIdentical(arch, u)
           /\ HeaderRead => hres.ret

\* C19 witness: the third draw failed, the header written was read back by an
\* archive that held a UUID before the write, and readHeader returned true.
C19_Witness ==
    /\ HeaderReadOk
    /\ hsrc.kind = "written"
    /\ hsrc.failAt = 3
    /\ WrittenUuid[2] # 0
    /\ hres.ret


-----------------------------------------------------------------------------
(* Grids: a metadata map (a function from the keys present to values), a   *)
(* tree (by identity) and a transform.                                     *)

META_GRID_CLASS == "class"
META_GRID_CREATOR == "creator"
META_GRID_NAME == "name"
META_SAVE_HALF_FLOAT == "is_saved_as_half_float"
META_FILE_BBOX_MIN == "file_bbox_min"
META_FILE_BBOX_MAX == "file_bbox_max"
META_FILE_COMPRESSION == "file_compression"
META_FILE_MEM_BYTES == "file_mem_bytes"
META_FILE_VOXEL_COUNT == "file_voxel_count"
META_FILE_DELAYED_LOAD == "file_delayed_load"

\* The keys in the order std::map keeps them.
MetaKeyOrder ==
    << META_GRID_CLASS, META_GRID_CREATOR, META_FILE_BBOX_MAX, META_FILE_BBOX_MIN,
       META_FILE_COMPRESSION, META_FILE_DELAYED_LOAD, META_FILE_MEM_BYTES,
       META_FILE_VOXEL_COUNT, META_SAVE_HALF_FLOAT, META_GRID_NAME >>

EmptyMeta == [k \in {} |-> 0]
insertMeta(m, k, v) == [x \in (DOMAIN m) \cup {k} |-> IF x = k THEN v ELSE m[x]]
removeMeta(m, k) == [x \in (DOMAIN m) \ {k} |-> m[x]]

\* MetaMap::writeMeta and MetaMap::readMeta: the entries in key order, and
\* the map rebuilt by inserting them one by one.
MetaToSeq(m) ==
    LET keys == SelectSeq(MetaKeyOrder, LAMBDA k : k \in DOMAIN m)
    IN  [n \in 1..Len(keys) |-> <<keys[n], m[keys[n]]>>]

RECURSIVE SeqToMeta(_)
SeqToMeta(q) ==
    IF q = <<>> THEN EmptyMeta
    ELSE insertMeta(SeqToMeta(SubSeq(q, 1, Len(q) - 1)), q[Len(q)][1], q[Len(q)][2])

GRID_UNKNOWN == 0
GRID_LEVEL_SET == 1
GRID_FOG_VOLUME == 2
GRID_STAGGERED == 3
NUM_GRID_CLASSES == 4

\* GridBase::gridClassToString
gridClassToString(cls) ==
    CASE cls = GRID_UNKNOWN -> "unknown"
      [] cls = GRID_LEVEL_SET -> "level set"
      [] cls = GRID_FOG_VOLUME -> "fog volume"
      [] cls = GRID_STAGGERED -> "staggered"
      [] OTHER -> ""

\* openvdb::string::trim followed by to_lower, on the class strings used.
TrimLower(str) ==
    CASE str = "Level Set" -> "level set"
      [] str = " fog volume " -> "fog volume"
      [] OTHER -> str

\* GridBase::stringToGridClass
stringToGridClass(str) ==
    LET t == TrimLower(str)
    IN  IF t = gridClassToString(GRID_LEVEL_SET) THEN GRID_LEVEL_SET
        ELSE IF t = gridClassToString(GRID_FOG_VOLUME) THEN GRID_FOG_VOLUME
        ELSE IF t = gridClassToString(GRID_STAGGERED) THEN GRID_STAGGERED
        ELSE GRID_UNKNOWN

\* GridBase::getGridClass
getGridClass(g) ==
    IF META_GRID_CLASS \in DOMAIN g.meta THEN stringToGridClass(g.meta[META_GRID_CLASS])
    ELSE GRID_UNKNOWN

\* GridBase::getName
getName(g) == IF META_GRID_NAME \in DOMAIN g.meta THEN g.meta[META_GRID_NAME] ELSE <<>>

\* GridBase::setName
setName(g, name) ==
    [g EXCEPT !.meta = insertMeta(removeMeta(g.meta, META_GRID_NAME), META_GRID_NAME, name)]

\* GridBase::saveFloatAsHalf
saveFloatAsHalf(g) ==
    IF META_SAVE_HALF_FLOAT \in DOMAIN g.meta THEN g.meta[META_SAVE_HALF_FLOAT] ELSE FALSE

\* GridBase::setSaveFloatAsHalf
setSaveFloatAsHalf(g, b) ==
    [g EXCEPT !.meta = insertMeta(removeMeta(g.meta, META_SAVE_HALF_FLOAT),
                                  META_SAVE_HALF_FLOAT, b)]

-----------------------------------------------------------------------------
(* Trees.  A tree has a value type, a background value and leaves; a leaf  *)
(* has a value mask (the number of active voxels out of LeafVoxels) and a  *)
(* buffer, here one value standing for its voxels.                         *)

LeafVoxels == 8

RealTypes == {"float", "double", "vec3s", "vec3d"}

\* Truncation of a real value to 16-bit precision: odd values are not
\* representable.
ToHalf(v) == 2 * (v \div 2)

\* The tree as it comes back from a file that stored it with the given
\* half-float setting.
StoredTree(t, half) ==
    IF half /\ t.vtype \in RealTypes
    THEN [ vtype |-> t.vtype, bg |-> ToHalf(t.bg),
           leaves |-> [n \in 1..Len(t.leaves) |->
                         [mask |-> t.leaves[n].mask, val |-> ToHalf(t.leaves[n].val)]] ]
    ELSE t

\* The trees of the grids handed to Archive::write, by identity.
InputTrees ==
    [ T1 |-> [ vtype |-> "float", bg |-> 3,
               leaves |-> << [mask |-> 8, val |-> 5], [mask |-> 3, val |-> 6] >> ],
      T2 |-> [ vtype |-> "double", bg |-> 0, leaves |-> << [mask |-> 1, val |-> 7] >> ],
      T3 |-> [ vtype |-> "bool", bg |-> 0, leaves |-> << [mask |-> 4, val |-> 1] >> ],
      T4 |-> [ vtype |-> "int32", bg |-> 1, leaves |-> << >> ] ]

\* Tree::leafCount, Grid::activeVoxelCount, Grid::memUsage and
\* Grid::evalActiveVoxelBoundingBox.
RECURSIVE SumMasks(_)
SumMasks(ls) == IF ls = <<>> THEN 0 ELSE Head(ls).mask + SumMasks(Tail(ls))
activeVoxelCount(t) == SumMasks(t.leaves)
memUsage(t) == 64 + 32 * Len(t.leaves)
evalActiveVoxelBoundingBox(t) ==
    IF t.leaves = <<>> THEN [min |-> <<1, 1, 1>>, max |-> <<0, 0, 0>>]
    ELSE [min |-> <<0, 0, 0>>, max |-> <<7, 7, 8 * Len(t.leaves) - 1>>]

\* Statistics left out.
addStatsMetadataNone(m, t) == m
\* GridBase::addStatsMetadata, on a grid's metadata map and tree.
addStatsMetadata(m, t) ==
    LET bbox == evalActiveVoxelBoundingBox(t)
        m0 == removeMeta(removeMeta(removeMeta(removeMeta(m,
                  META_FILE_BBOX_MIN), META_FILE_BBOX_MAX), META_FILE_MEM_BYTES),
                  META_FILE_VOXEL_COUNT)
    IN  insertMeta(insertMeta(insertMeta(insertMeta(m0,
            META_FILE_BBOX_MIN, bbox.min),
            META_FILE_BBOX_MAX, bbox.max),
            META_FILE_MEM_BYTES, memUsage(t)),
            META_FILE_VOXEL_COUNT, activeVoxelCount(t))

-----------------------------------------------------------------------------
(* The per-stream state: the integer slots, the two pointer slots, and the *)
(* StreamMetadata::Ptr variables the metadata slot may point at.  The slot *)
(* holds the address of a Ptr variable; "null" is the null address.        *)

PtrVars == {"caller", "write", "grid", "reader"}

\* StreamMetadata::Impl as default-constructed.
NewStreamMetadata ==
    [ valid |-> TRUE,
      mFileVersion |-> OPENVDB_FILE_VERSION,
      mLibMajor |-> OPENVDB_LIBRARY_MAJOR_VERSION,
      mLibMinor |-> OPENVDB_LIBRARY_MINOR_VERSION,
      mCompression |-> COMPRESS_NONE,
      mGridClass |-> GRID_UNKNOWN,
      mBackgroundPtr |-> "null",
      mHalfFloat |-> FALSE,
      mWriteGridStats |-> FALSE,
      mSeekable |-> FALSE,
      mGridMetadata |-> EmptyMeta,
      mTest |-> 0 ]

\* An empty StreamMetadata::Ptr.
NullStreamMetadata == [NewStreamMetadata EXCEPT !.valid = FALSE]

\* The state of a freshly constructed stream: every slot zero.
NewStream ==
    [ iw |-> [ fileVersion |-> 0, libraryMajorVersion |-> 0, libraryMinorVersion |-> 0,
               dataCompression |-> 0, writeGridStatsMetadata |-> 0,
               gridClass |-> 0, halfFloat |-> 0 ],
      pw |-> [ gridBackground |-> "null", metadata |-> "null" ],
      sm |-> [ v \in PtrVars |-> NullStreamMetadata ],
      alive |-> {} ]

\* getStreamMetadataPtr returns a non-null Ptr.
HasStreamMetadata(st) ==
    /\ st.pw.metadata # "null"
    /\ st.sm[st.pw.metadata].valid

\* The "if (StreamMetadata::Ptr meta = getStreamMetadataPtr(strm)) meta->set..."
\* tail shared by the setters.
SetMetaField(st, f, v) ==
    IF HasStreamMetadata(st) THEN [st EXCEPT !.sm[st.pw.metadata][f] = v] ELSE st

BoolToInt(b) == IF b THEN 1 ELSE 0

setVersion(st, major, minor, fileVersion) ==
    LET s1 == [st EXCEPT !.iw.fileVersion = fileVersion,
                         !.iw.libraryMajorVersion = major,
                         !.iw.libraryMinorVersion = minor]
    IN  SetMetaField(SetMetaField(SetMetaField(s1, "mFileVersion", fileVersion),
                                  "mLibMajor", major), "mLibMinor", minor)

getFormatVersion(st) == st.iw.fileVersion

getDataCompression(st) == st.iw.dataCompression

setDataCompression(st, c) ==
    SetMetaField([st EXCEPT !.iw.dataCompression = c], "mCompression", c)

getWriteGridStatsMetadata(st) == st.iw.writeGridStatsMetadata # 0

setWriteGridStatsMetadata(st, b) ==
    SetMetaField([st EXCEPT !.iw.writeGridStatsMetadata = BoolToInt(b)], "mWriteGridStats", b)

\* io::getGridClass
getStreamGridClass(st) ==
    IF st.iw.gridClass >= NUM_GRID_CLASSES THEN GRID_UNKNOWN ELSE st.iw.gridClass

setGridClass(st, cls) ==
    SetMetaField([st EXCEPT !.iw.gridClass = cls], "mGridClass", cls)

getHalfFloat(st) == st.iw.halfFloat # 0

setHalfFloat(st, b) ==
    SetMetaField([st EXCEPT !.iw.halfFloat = BoolToInt(b)], "mHalfFloat", b)

setGridBackgroundValuePtr(st, bg) ==
    SetMetaField([st EXCEPT !.pw.gridBackground = bg], "mBackgroundPtr", bg)

\* StreamMetadata::transferTo
transferTo(m, st) ==
    setWriteGridStatsMetadata(
      setHalfFloat(
        setGridClass(
          setGridBackgroundValuePtr(
            setDataCompression(
              setVersion(st, m.mLibMajor, m.mLibMinor, m.mFileVersion),
              m.mCompression),
            m.mBackgroundPtr),
          m.mGridClass),
        m.mHalfFloat),
      m.mWriteGridStats)

\* setStreamMetadataPtr(strm, meta, transfer), meta being the Ptr variable v.
setStreamMetadataPtr(st, v, transfer) ==
    LET s1 == [st EXCEPT !.pw.metadata = v]
    IN  IF transfer /\ st.sm[v].valid THEN transferTo(st.sm[v], s1) ELSE s1

\* A Ptr variable v comes into scope holding m; it goes out of scope.
Declare(st, v, m) == [st EXCEPT !.sm[v] = m, !.alive = @ \cup {v}]
Destroy(st, v) == [st EXCEPT !.sm[v] = NullStreamMetadata, !.alive = @ \ {v}]

-----------------------------------------------------------------------------
(* The output stream is a sequence of items; each item records what was    *)
(* written and how many bytes it occupies.                                 *)

Tok(k, v, n) == [k |-> k, v |-> v, n |-> n]

\* std::ostream::tellp on a stream positioned at its end.
RECURSIVE tellp(_)
tellp(s) == IF s = <<>> THEN 0 ELSE s[Len(s)].n + tellp(SubSeq(s, 1, Len(s) - 1))

\* writeString: a 32-bit length followed by the characters.
StringSize(str) == 4 + Len(str)

\* MetaMap::writeMeta
MetaTok(m) == Tok("meta", MetaToSeq(m), 4 + 16 * Len(MetaToSeq(m)))

\* The separator between a grid name and its numeric suffix, "\x1e".
SEP == 30

RECURSIVE Decimal(_)
Decimal(n) ==
    IF n < 10 THEN <<48 + n>>
    ELSE Decimal(n \div 10) \o <<48 + (n % 10)>>

\* GridDescriptor::addSuffix
addSuffix(name, n) == name \o <<SEP>> \o Decimal(n)

\* GridDescriptor::stripSuffix
RECURSIVE stripSuffix(_)
stripSuffix(name) ==
    IF name = <<>> \/ Head(name) = SEP THEN <<>>
    ELSE <<Head(name)>> \o stripSuffix(Tail(name))

\* GridDescriptor(name, gridType, saveFloatAsHalf)
GridDescriptor(name, type, half) ==
    [ mGridName |-> stripSuffix(name), mUniqueName |-> name,
      mInstanceParentName |-> <<>>, mGridType |-> type, mSaveFloatAsHalf |-> half,
      mGridPos |-> 0, mBlockPos |-> 0, mEndPos |-> 0 ]

\* GridDescriptor::isInstance
isInstance(gd) == gd.mInstanceParentName # <<>>

\* GridDescriptor::writeHeader.  A type name takes 16 characters here, and
\* the half-float suffix 10 more.
GdHeader(gd) ==
    << Tok("uniqueName", gd.mUniqueName, StringSize(gd.mUniqueName)),
       Tok("gridType", [type |-> gd.mGridType, half |-> gd.mSaveFloatAsHalf],
           4 + 16 + (IF gd.mSaveFloatAsHalf THEN 10 ELSE 0)),
       Tok("instanceParentName", gd.mInstanceParentName,
           StringSize(gd.mInstanceParentName)) >>

\* GridDescriptor::writeStreamPos
GdStreamPos(gd) == Tok("streamPos", <<gd.mGridPos, gd.mBlockPos, gd.mEndPos>>, 24)

\* Flags passed through whatever the grid class.
GridCompressionKeepsZip(c, cls) == c
\* The flags setGridCompression derives from the archive's for a grid class.
GridCompression(c, cls) ==
    IF cls \in {GRID_LEVEL_SET, GRID_FOG_VOLUME} THEN BitClear(c, COMPRESS_ZIP) ELSE c

\* Archive::setGridCompression: the stream afterwards and the item written.
setGridCompression(a, st, g) ==
    LET c == GridCompression(a.mCompression, getGridClass(g))
    IN  [ strm |-> setDataCompression(st, c), tok |-> Tok("compression", c, 4) ]

\* compressionToString
compressionToString(c) ==
    << IF BitAnd(c, COMPRESS_ZIP) # 0 THEN "zip" ELSE "",
       IF BitAnd(c, COMPRESS_BLOSC) # 0 THEN "blosc" ELSE "",
       IF BitAnd(c, COMPRESS_ACTIVE_MASK) # 0 THEN "active values" ELSE "" >>

\* Bytes per stored value.
ElemSize(vtype, half) ==
    CASE vtype = "bool" -> 1
      [] vtype \in RealTypes /\ half -> 2
      [] vtype = "double" -> 8
      [] OTHER -> 4

\* io::writeCompressedValuesSize: the size of a leaf buffer's payload under
\* the given flags (Blosc takes precedence over ZIP).
writeCompressedValuesSize(leaf, vtype, half, c) ==
    LET count == IF BitAnd(c, COMPRESS_ACTIVE_MASK) # 0 THEN leaf.mask ELSE LeafVoxels
        raw == count * ElemSize(vtype, half)
    IN  IF BitAnd(c, COMPRESS_BLOSC) # 0 THEN raw \div 4 + 1
        ELSE IF BitAnd(c, COMPRESS_ZIP) # 0 THEN raw \div 2 + 2
        ELSE raw

IsCompressed(c) == BitAnd(c, COMPRESS_BLOSC + COMPRESS_ZIP) # 0

\* The mask-compression descriptor byte of a leaf.
MaskMetadata(leaf, bg) == IF leaf.mask = LeafVoxels THEN 0 ELSE 1

AllowedTypes == {"int32", "int64", "float", "double", "vec3i", "vec3s", "vec3d"}

\* A default-constructed DelayedLoadMetadata.
DelayedLoadMetadata == [mask |-> <<>>, size |-> <<>>]

\* The operator applied to every grid, whatever its type.
populateDelayedLoadMetadataAnyType(dlm, g, t, compression) ==
    [ ok |-> TRUE,
      dlm |-> [ mask |-> [n \in 1..Len(t.leaves) |-> 0], size |-> <<>> ] ]

\* populateDelayedLoadMetadata(metadata, grid, compression)
LENGTH_PREFIX == 8
populateDelayedLoadMetadata(dlm, g, t, compression) ==
    IF t.vtype \notin AllowedTypes THEN [ok |-> FALSE, dlm |-> dlm]
    ELSE IF Len(t.leaves) = 0 THEN [ok |-> TRUE, dlm |-> dlm]
    ELSE [ ok |-> TRUE,
           dlm |-> [ mask |-> [n \in 1..Len(t.leaves) |-> MaskMetadata(t.leaves[n], t.bg)],
                     size |-> IF IsCompressed(compression)
                              THEN [n \in 1..Len(t.leaves) |->
                                      writeCompressedValuesSize(t.leaves[n], t.vtype,
                                          saveFloatAsHalf(g), compression) + LENGTH_PREFIX]
                              ELSE <<>> ] ]

\* Grid::writeTopology: the background and the value masks.
TopologyTok(g, t) ==
    LET h == StoredTree(t, saveFloatAsHalf(g))
    IN  Tok("topology",
            [ vtype |-> t.vtype, bg |-> h.bg,
              masks |-> [n \in 1..Len(t.leaves) |-> t.leaves[n].mask] ],
            8 + 8 * Len(t.leaves))

\* Grid::writeBuffers: one item per leaf, written under the stream's
\* compression flags; disk is the size of the buffer as stored.
BufferToks(g, t, st) ==
    LET h == StoredTree(t, saveFloatAsHalf(g))
        c == getDataCompression(st)
    IN  [ n \in 1..Len(t.leaves) |->
            LET payload == writeCompressedValuesSize(t.leaves[n], t.vtype,
                               saveFloatAsHalf(g), c)
                disk == IF IsCompressed(c) THEN LENGTH_PREFIX + payload ELSE payload
            IN  Tok("leaf", [val |-> h.leaves[n].val, c |-> c, disk |-> disk], 1 + disk) ]

-----------------------------------------------------------------------------
(* Archive::write followed by a read of the stream it produced.            *)
(* inp is the call's input: the grid list, the archive's settings and how  *)
(* the caller prepared the stream.                                         *)

MaxGrids == 3

NullGrid == [meta |-> EmptyMeta, tree |-> "null", xform |-> 0]
IsNull(g) == g.tree = "null"

\* Grid::type, reduced to the value type of the tree.
GridType(g) == InputTrees[g.tree].vtype

NameA == <<97>>
NameB == <<98>>
NameC == <<99>>

\* A grid with the given tree and transform whose metadata holds a name, a
\* class and a half-float flag where the option (a sequence of at most one
\* element) is non-empty.
MkGrid(tree, xform, nameOpt, clsOpt, halfOpt) ==
    LET m1 == IF nameOpt = <<>> THEN EmptyMeta
              ELSE insertMeta(EmptyMeta, META_GRID_NAME, nameOpt[1])
        m2 == IF clsOpt = <<>> THEN m1 ELSE insertMeta(m1, META_GRID_CLASS, clsOpt[1])
        m3 == IF halfOpt = <<>> THEN m2 ELSE insertMeta(m2, META_SAVE_HALF_FLOAT, halfOpt[1])
    IN  [meta |-> m3, tree |-> tree, xform |-> xform]

Scenario(grids, comp, stats, winst, rinst, seekable, bound, test) ==
    [ grids |-> grids, comp |-> comp, stats |-> stats, winst |-> winst, rinst |-> rinst,
      seekable |-> seekable, bound |-> bound, test |-> test ]

\* Lists whose grids are unnamed, null, share a name, or are named like
\* another grid's suffixed name.
NamePool ==
    { <<>>, <<<<>>>>, <<NameA>>, <<addSuffix(NameA, 0)>>, <<addSuffix(NameA, 1)>>,
      <<addSuffix(<<>>, 0)>> }
NullOpt == <<<<-1>>>>
PositionTree ==
    [ n \in 1..MaxGrids |->
        CASE n = 1 -> "T1" [] n = 2 -> "T2" [] n = 3 -> "T3" [] OTHER -> "T4" ]
NamedList(opts) ==
    [ n \in 1..Len(opts) |->
        IF opts[n] = NullOpt THEN NullGrid
        ELSE MkGrid(PositionTree[n], n, opts[n], <<>>, <<>>) ]
NameScenarios ==
    { Scenario(NamedList(opts), COMPRESS_ACTIVE_MASK, FALSE, TRUE, TRUE, seekable, FALSE, 0) :
        opts \in UNION { [1..k -> NamePool \cup {NullOpt}] : k \in 0..MaxGrids },
        seekable \in {TRUE} }

\* Lists in which grids share trees, with and without matching half-float
\* flags, named or all unnamed.
SharedNames == [n \in 1..MaxGrids |-> <<96 + n>>]
SharedList(ts, hs_, anon) ==
    [ n \in 1..Len(ts) |->
        MkGrid(ts[n], n, IF anon THEN <<>> ELSE <<SharedNames[n]>>, <<>>,
               IF hs_[n] THEN <<TRUE>> ELSE <<>>) ]
SharedScenarios ==
    { Scenario(SharedList(ts, hf, anon), COMPRESS_ACTIVE_MASK, TRUE, winst, rinst,
               TRUE, FALSE, 0) :
        ts \in UNION { [1..k -> {"T1", "T2"}] : k \in 2..MaxGrids },
        hf \in [1..MaxGrids -> BOOLEAN], anon \in BOOLEAN,
        winst \in BOOLEAN, rinst \in BOOLEAN }
\* The same lists, named, written with instancing to a non-seekable stream.
UnseekableSharedScenarios ==
    { Scenario(SharedList(ts, hf, FALSE), COMPRESS_ACTIVE_MASK, TRUE, TRUE, TRUE,
               FALSE, FALSE, 0) :
        ts \in UNION { [1..k -> {"T1", "T2"}] : k \in 2..MaxGrids },
        hf \in [1..MaxGrids -> BOOLEAN] }

\* One grid of every tree, class and half-float setting under archive
\* compression flags that include a bit no codec owns.
UNKNOWN_FLAG == 2 * COMPRESS_BLOSC
CompPool == (0..7) \cup {COMPRESS_ZIP + UNKNOWN_FLAG, 15}
ClassPool == { <<>>, <<"unknown">>, <<"Level Set">>, <<" fog volume ">>, <<"staggered">> }
SingleScenarios ==
    { Scenario(<<MkGrid(t, 1, <<NameA>>, cls, half)>>, comp, stats, TRUE, TRUE,
               TRUE, FALSE, 0) :
        t \in DOMAIN InputTrees, cls \in ClassPool, half \in {<<>>, <<TRUE>>},
        comp \in CompPool, stats \in BOOLEAN }

\* Lists of grids of distinct types with non-empty names, some carrying
\* user metadata and stale file statistics, written to seekable and
\* non-seekable streams that the caller did or did not tag beforehand.
TypedGrids ==
    { MkGrid("T1", 1, <<NameA>>, <<"Level Set">>, <<TRUE>>),
      [ MkGrid("T2", 2, <<NameB>>, <<>>, <<>>) EXCEPT
          !.meta = insertMeta(insertMeta(insertMeta(@,
                       META_GRID_CREATOR, "user"),
                       META_FILE_MEM_BYTES, 1),
                       META_FILE_DELAYED_LOAD, DelayedLoadMetadata) ],
      [ MkGrid("T3", 3, <<NameC>>, <<"staggered">>, <<>>) EXCEPT
          !.meta = insertMeta(@, META_FILE_DELAYED_LOAD, DelayedLoadMetadata) ],
      MkGrid("T4", 4, <<addSuffix(NameA, 0)>>, <<" fog volume ">>, <<FALSE>>) }
TypedLists ==
    { gs \in UNION { [1..k -> TypedGrids] : k \in 1..2 } :
        \A i, j \in DOMAIN gs : i # j => GridType(gs[i]) # GridType(gs[j]) }
TypedScenarios ==
    { Scenario(gs, comp, stats, TRUE, TRUE, seekable, bound, test) :
        gs \in TypedLists, comp \in {COMPRESS_NONE, COMPRESS_ZIP + COMPRESS_ACTIVE_MASK,
                                    COMPRESS_BLOSC + COMPRESS_ACTIVE_MASK},
        stats \in BOOLEAN, seekable \in BOOLEAN, bound \in BOOLEAN, test \in {0, 1} }

\* Two level sets that share a tree, written with instancing under ZIP to a
\* stream the caller did or did not tag beforehand.
LevelSetScenarios ==
    { Scenario(<< MkGrid("T1", 1, <<NameA>>, <<"Level Set">>, <<>>),
                  MkGrid("T1", 2, <<NameB>>, <<"Level Set">>, <<>>) >>,
               COMPRESS_ZIP + COMPRESS_ACTIVE_MASK, TRUE, TRUE, TRUE, TRUE, bound, 0) :
        bound \in BOOLEAN }

Scenarios ==
    NameScenarios \cup SharedScenarios \cup UnseekableSharedScenarios
        \cup SingleScenarios \cup TypedScenarios \cup LevelSetScenarios

-----------------------------------------------------------------------------
(* The locals of Archive::write and of the per-grid call in progress.      *)

NoGd == GridDescriptor(<<>>, "", FALSE)

\* grids holds the caller's grids as they stand; posCalls counts the
\* calls of tellp and seekp made so far, beforePatch is
\* the stream as the last per-grid call left it before it went back to the
\* offsets, and pos is the stream's write position after that call.
NoWrite ==
    [ i |-> 0, nameCount |-> EmptyMeta, uniqueNames |-> {}, treeMap |-> EmptyMeta,
      gd |-> NoGd, renames |-> 0, restore |-> "null", offsetIdx |-> 0,
      posCalls |-> 0, beforePatch |-> <<>>, pos |-> 0, grids |-> <<>> ]

\* What the caller of a per-grid operation saw in the metadata slot when it
\* made the call, and whether the call has come back.
NoEntry ==
    [ op |-> "none", slot |-> "null", done |-> FALSE, threw |-> FALSE,
      meta |-> NullStreamMetadata ]
\* The StreamMetadata bound to the stream when a per-grid call is made.
BoundAtCall(st) ==
    IF st.pw.metadata \in st.alive THEN st.sm[st.pw.metadata] ELSE NullStreamMetadata

\* The reading side: the reader's archive, its position in the stream, the
\* descriptors and grids read so far, the trees those grids hold (by
\* identity), the name-to-grid map, and the grid being read.
NoGrid == [meta |-> EmptyMeta, tree |-> 0, xform |-> 0]
NoReader ==
    [ arch |-> NewArchive("blosc"), pos |-> 0, gridCount |-> 0, descs |-> <<>>,
      grids |-> <<>>, trees |-> <<>>, named |-> EmptyMeta, gd |-> NoGd,
      grid |-> NoGrid, restore |-> "null", ci |-> 0, reads |-> <<>> ]

\* The histogram of grid names built at the start of Archive::write.
RECURSIVE NameHistogram(_)
NameHistogram(gs) ==
    IF gs = <<>> THEN EmptyMeta
    ELSE LET h == NameHistogram(SubSeq(gs, 1, Len(gs) - 1))
             g == gs[Len(gs)]
         IN  IF IsNull(g) THEN h
             ELSE IF getName(g) \in DOMAIN h THEN [h EXCEPT ![getName(g)] = @ + 1]
             ELSE insertMeta(h, getName(g), 1)

\* The loop "for (int n = 1; uniqueNames.find(name) != end; ++n)": the name
\* it ends with and the value of n at that point.
RenameOnce(name, n, base, used) == [name |-> name, n |-> n]
RECURSIVE RenameLoop(_, _, _, _)
RenameLoop(name, n, base, used) ==
    IF name \notin used THEN [name |-> name, n |-> n]
    ELSE RenameLoop(addSuffix(base, n), n + 1, base, used)

\* The naming without the histogram: only an empty name is suffixed at once.
UniqueNameWhenTaken(g, nameCount, used) ==
    LET name == getName(g)
        first == IF name = <<>> THEN addSuffix(name, 0) ELSE name
    IN  RenameLoop(first, 1, name, used)

\* The descriptor name Archive::write gives a grid.
UniqueName(g, nameCount, used) ==
    LET name == getName(g)
        first == IF name = <<>> \/ nameCount[name] > 1 THEN addSuffix(name, 0) ELSE name
    IN  RenameLoop(first, 1, name, used)

\* An OnExit guard whose destructor does nothing.
OnExitForgets(st, ptr) == st
\* The destructor of writeGrid's and doReadGrid's OnExit.
OnExit(st, ptr) == [st EXCEPT !.pw.metadata = ptr]

\* The non-null grids of a list.
\* The mutant: every entry is counted.
NonNullOrNull(gs) == gs
\* The entries Archive::write counts: "if (*i) ++gridCount".
NonNull(gs) == SelectSeq(gs, LAMBDA g : ~IsNull(g))

\* The random words the header of the written archive is made from.
WriteDraws == CHOOSE d \in DrawSeqs : d[4] = 1

\* The state in which a caller hands Archive::write a list of grids.
Init ==
    /\ build = "blosc"
    /\ inp \in Scenarios
    /\ arch = [NewArchive(build) EXCEPT !.mCompression = inp.comp,
                                        !.mEnableGridStats = inp.stats,
                                        !.mEnableInstancing = inp.winst]
    /\ strm = IF inp.bound
              THEN setStreamMetadataPtr(Declare(NewStream, "caller", NewStreamMetadata),
                                        "caller", TRUE)
              ELSE NewStream
    /\ pc = "start"
    /\ os = <<>>
    /\ wr = NoWrite
    /\ descs = <<>>
    /\ entry = NoEntry
    /\ rd = NoReader
    /\ err = NoError
    /\ mf = NoMappedFile
    /\ reg = NewRegistry
    /\ ss = NoStreamStates
    /\ hs = <<>> /\ hpos = 0 /\ hres = NoResult
    /\ hsrc = [kind |-> "none", seekable |-> FALSE, failAt |-> 0]

\* Archive::write up to its loop over the grids: the stream is tagged, the
\* header, the file metadata and the grid count are written.
WriteStart ==
    /\ pc = "start"
    /\ \E draws \in {WriteDraws} :
        LET s0 == IF HasStreamMetadata(strm) THEN strm
                  ELSE setStreamMetadataPtr(Declare(strm, "write", NewStreamMetadata),
                                            "write", FALSE)
            s1 == setDataCompression(s0, arch.mCompression)
            s2 == setWriteGridStatsMetadata(s1, arch.mEnableGridStats)
            w  == WriteHeader(arch, inp.seekable, draws, 0, 0)
        IN  /\ strm' = s2
            /\ arch' = w.arch
            /\ os' = << Tok("header", w.bytes, Len(w.bytes)), MetaTok(EmptyMeta),
                        Tok("gridCount", Len(NonNull(inp.grids)), 4) >>
    /\ wr' = [NoWrite EXCEPT !.i = 1, !.nameCount = NameHistogram(inp.grids),
                             !.grids = inp.grids]
    /\ pc' = "grid"
    /\ UNCHANGED <<ss, reg, mf, build, hvars, inp, descs, entry, rd, err>>

\* The stream left with the compression of the grid just written.
KeepGridCompression(st, a) == st
\* "io::setDataCompression(os, compression())" at the end of each pass of the
\* loop over the grids.
RestoreCompression(st, a) == setDataCompression(st, a.mCompression)

\* A null entry of the list: only the stream's compression is reset.
SkipNull ==
    /\ pc = "grid"
    /\ wr.i <= Len(inp.grids)
    /\ IsNull(inp.grids[wr.i])
    /\ strm' = RestoreCompression(strm, arch)
    /\ wr' = [wr EXCEPT !.i = @ + 1]
    /\ UNCHANGED <<ss, reg, mf, build, arch, hvars, inp, pc, os, descs, entry, rd, err>>

\* The test with the half-float flags left out.
TreeInMapAnyHalf(treeMap, grid, gd) == grid.tree \in DOMAIN treeMap
\* "isInstance = (mapIter != treeMap.end()) && (mapIter->second.saveFloatAsHalf()
\* == gd.saveFloatAsHalf())"
TreeInMapSameHalf(treeMap, grid, gd) ==
    /\ grid.tree \in DOMAIN treeMap
    /\ treeMap[grid.tree].mSaveFloatAsHalf = gd.mSaveFloatAsHalf

\* The map with every grid's descriptor recorded, instance or not.
RecordAlways(treeMap, grid, gd) == insertMeta(treeMap, grid.tree, gd)
\* "treeMap[treePtr] = gd" in the branch that writes a primary.
RecordPrimary(treeMap, grid, gd) ==
    IF isInstance(gd) THEN treeMap ELSE insertMeta(treeMap, grid.tree, gd)

\* A non-null grid: it is named, its descriptor is made, and it is found
\* to be an instance or a primary.
BeginGrid ==
    /\ pc = "grid"
    /\ wr.i <= Len(inp.grids)
    /\ ~IsNull(inp.grids[wr.i])
    /\ LET grid == inp.grids[wr.i]
           u == UniqueName(grid, wr.nameCount, wr.uniqueNames)
           gd == GridDescriptor(u.name, GridType(grid), saveFloatAsHalf(grid))
           inst == TreeInMapSameHalf(wr.treeMap, grid, gd)
       IN  IF arch.mEnableInstancing /\ inst
           THEN /\ wr' = [wr EXCEPT !.uniqueNames = @ \cup {u.name}, !.renames = u.n,
                             !.gd = [gd EXCEPT !.mInstanceParentName =
                                         wr.treeMap[grid.tree].mUniqueName]]
                /\ pc' = "writeGridInstance"
                /\ entry' = [ op |-> "writeGridInstance", slot |-> strm.pw.metadata,
                              done |-> FALSE, threw |-> FALSE,
                              meta |-> BoundAtCall(strm) ]
           ELSE /\ wr' = [wr EXCEPT !.uniqueNames = @ \cup {u.name}, !.renames = u.n,
                                    !.gd = gd]
                /\ pc' = "writeGrid"
                /\ entry' = [ op |-> "writeGrid", slot |-> strm.pw.metadata,
                              done |-> FALSE, threw |-> FALSE,
                              meta |-> BoundAtCall(strm) ]
    /\ UNCHANGED <<ss, reg, mf, build, arch, hvars, inp, os, strm, descs, rd, err>>


IoError == "IoError"

\* "if (seekable) gd.setGridPos(os.tellp())" and its like: the offset the
\* descriptor holds afterwards.  The mutant asks the position always.
PosAlways(seekable, o, old) == tellp(o)
PosIfSeekable(seekable, o, old) == IF seekable THEN tellp(o) ELSE old
\* The calls of tellp and seekp n such statements make.
PosCalls(seekable, n) == IF seekable THEN n ELSE 0
\* GridDescriptor::seekToEnd: the position the stream is put at.
seekToEnd(gd) == gd.mEndPos
\* The stream after "os.seekp(offsetPos); gd.writeStreamPos(os)", the mutant:
\* the offsets are written where the stream stands.
BackPatchAppended(o, at, gd) == Append(o, GdStreamPos(gd))
\* The stream with the placeholder offsets left as they were written.
BackPatchSkipped(o, at, gd) == o
\* The stream after "os.seekp(offsetPos); gd.writeStreamPos(os)": offsetPos
\* is where item number at begins.
BackPatch(o, at, gd) == [o EXCEPT ![at] = GdStreamPos(gd)]

\* GridBase::copyGrid, the mutant: the "copy" is the caller's grid itself.
copyGridAlias(grid) == [meta |-> grid.meta, tree |-> grid.tree, own |-> FALSE]
\* GridBase::copyGrid: a new grid that shares the tree and has a metadata map
\* of its own (own tells that the map is not the caller's).
copyGrid(grid) == [meta |-> grid.meta, tree |-> grid.tree, own |-> TRUE]

\* The body of Archive::writeGrid between the binding of the grid-level
\* stream metadata and the back-patching of the offsets: every stream item
\* written, the descriptor and the stream state after each step.
writeGridBody(a, st, o, gd, grid, seekable) ==
    LET t == InputTrees[grid.tree]
        os1 == o \o GdHeader(gd)
        os2 == Append(os1, GdStreamPos(gd))
        gd1 == [gd EXCEPT !.mGridPos = PosIfSeekable(seekable, os2, @)]
        sgc == setGridCompression(a, st, grid)
        os3 == Append(os2, sgc.tok)
        copyOfGrid == copyGrid(grid)
        copy0 == insertMeta(copyOfGrid.meta, META_FILE_DELAYED_LOAD, DelayedLoadMetadata)
        pop == populateDelayedLoadMetadata(DelayedLoadMetadata, grid, t, a.mCompression)
        copy1 == IF pop.ok THEN insertMeta(copy0, META_FILE_DELAYED_LOAD, pop.dlm)
                 ELSE removeMeta(copy0, META_FILE_DELAYED_LOAD)
        copy2 == IF getWriteGridStatsMetadata(sgc.strm)
                 THEN insertMeta(addStatsMetadata(copy1, t), META_FILE_COMPRESSION,
                                 compressionToString(getDataCompression(sgc.strm)))
                 ELSE copy1
        os4 == os3 \o <<MetaTok(copy2), Tok("transform", grid.xform, 8)>>
        os5 == Append(os4, TopologyTok(grid, t))
        gd2 == [gd1 EXCEPT !.mBlockPos = PosIfSeekable(seekable, os5, @)]
        os6 == os5 \o BufferToks(grid, t, sgc.strm)
        gd3 == [gd2 EXCEPT !.mEndPos = PosIfSeekable(seekable, os6, @)]
    IN  [ strm |-> sgc.strm, offsetIdx |-> Len(os1) + 1,
          beforeBuffers |-> os5, os |-> os6, gd |-> gd3,
          grid |-> IF copyOfGrid.own THEN grid ELSE [grid EXCEPT !.meta = copy2],
          callsBeforeBuffers |-> PosCalls(seekable, 3), calls |-> PosCalls(seekable, 4) ]

\* Archive::writeGrid, entry: the OnExit guard remembers the slot and the
\* grid-level copy of the stream metadata is bound.
WriteGridEnter ==
    /\ pc = "writeGrid"
    /\ LET grid == inp.grids[wr.i]
           meta == IF HasStreamMetadata(strm) THEN strm.sm[strm.pw.metadata]
                   ELSE NewStreamMetadata
           copy == [meta EXCEPT !.mHalfFloat = saveFloatAsHalf(grid),
                                !.mGridMetadata = grid.meta]
       IN  /\ wr' = [wr EXCEPT !.restore = strm.pw.metadata]
           /\ strm' = setStreamMetadataPtr(Declare(strm, "grid", copy), "grid", FALSE)
    /\ pc' = "writeGridBody"
    /\ UNCHANGED <<ss, reg, mf, build, arch, hvars, inp, os, descs, entry, rd, err>>

\* Archive::writeGrid, body.  Writing the buffers may throw; the exception
\* unwinds writeGrid (its stream metadata, then its OnExit guard) and then
\* Archive::write.
WriteGridBody ==
    /\ pc = "writeGridBody"
    /\ LET b == writeGridBody(arch, strm, os, wr.gd, inp.grids[wr.i], inp.seekable)
       IN  \/ /\ os' = b.os
              /\ strm' = b.strm
              /\ wr' = [wr EXCEPT !.gd = b.gd, !.offsetIdx = b.offsetIdx,
                                  !.posCalls = @ + b.calls, !.grids[wr.i] = b.grid]
              /\ pc' = "writeGridExit"
              /\ UNCHANGED <<entry, err>>
           \/ /\ os' = b.beforeBuffers
              /\ strm' = LET s1 == OnExit(Destroy(b.strm, "grid"), wr.restore)
                         IN  IF "write" \in s1.alive THEN Destroy(s1, "write") ELSE s1
              /\ entry' = [entry EXCEPT !.done = TRUE, !.threw = TRUE]
              /\ err' = IoError
              /\ pc' = "failed"
              /\ wr' = [wr EXCEPT !.posCalls = @ + b.callsBeforeBuffers,
                                  !.grids[wr.i] = b.grid]
    /\ UNCHANGED <<ss, reg, mf, build, arch, hvars, inp, descs, rd>>

\* Archive::writeGrid, exit: the offsets are back-patched on a seekable
\* stream and the OnExit guard runs.
WriteGridExit ==
    /\ pc = "writeGridExit"
    /\ os' = IF inp.seekable THEN BackPatch(os, wr.offsetIdx, wr.gd) ELSE os
    /\ strm' = OnExit(Destroy(strm, "grid"), wr.restore)
    /\ entry' = [entry EXCEPT !.done = TRUE]
    /\ descs' = Append(descs, [gd |-> wr.gd, idx |-> wr.i, at |-> wr.offsetIdx])
    /\ wr' = [wr EXCEPT !.posCalls = @ + PosCalls(inp.seekable, 2),
                        !.beforePatch = os,
                        !.pos = IF inp.seekable THEN seekToEnd(wr.gd) ELSE tellp(os)]
    /\ pc' = "afterGrid"
    /\ UNCHANGED <<ss, reg, mf, build, arch, hvars, inp, rd, err>>

\* Archive::writeGridInstance up to the back-patching of the offsets.
writeGridInstanceBody(a, st, o, gd, grid, seekable) ==
    LET os1 == o \o GdHeader(gd)
        os2 == Append(os1, GdStreamPos(gd))
        gd1 == [gd EXCEPT !.mGridPos = PosIfSeekable(seekable, os2, @)]
        sgc == setGridCompression(a, st, grid)
        os3 == Append(os2, sgc.tok)
        os4 == os3 \o <<MetaTok(grid.meta), Tok("transform", grid.xform, 8)>>
        gd2 == [gd1 EXCEPT !.mEndPos = PosIfSeekable(seekable, os4, @)]
    IN  [ strm |-> sgc.strm, offsetIdx |-> Len(os1) + 1,
          beforeMeta |-> os3, os |-> os4, gd |-> gd2,
          callsBeforeMeta |-> PosCalls(seekable, 2), calls |-> PosCalls(seekable, 3) ]

\* Archive::writeGridInstance.  Writing the metadata may throw.
WriteGridInstance ==
    /\ pc = "writeGridInstance"
    /\ LET b == writeGridInstanceBody(arch, strm, os, wr.gd, inp.grids[wr.i], inp.seekable)
       IN  \/ /\ os' = IF inp.seekable THEN BackPatch(b.os, b.offsetIdx, b.gd) ELSE b.os
              /\ strm' = b.strm
              /\ wr' = [wr EXCEPT !.gd = b.gd, !.offsetIdx = b.offsetIdx,
                                  !.posCalls = @ + b.calls + PosCalls(inp.seekable, 2),
                                  !.beforePatch = b.os,
                                  !.pos = IF inp.seekable THEN seekToEnd(b.gd)
                                          ELSE tellp(b.os)]
              /\ descs' = Append(descs, [gd |-> b.gd, idx |-> wr.i, at |-> b.offsetIdx])
              /\ entry' = [entry EXCEPT !.done = TRUE]
              /\ pc' = "afterGrid"
              /\ err' = err
           \/ /\ os' = b.beforeMeta
              /\ strm' = IF "write" \in b.strm.alive THEN Destroy(b.strm, "write") ELSE b.strm
              /\ entry' = [entry EXCEPT !.done = TRUE, !.threw = TRUE]
              /\ err' = IoError
              /\ pc' = "failed"
              /\ wr' = [wr EXCEPT !.posCalls = @ + b.callsBeforeMeta]
              /\ descs' = descs
    /\ UNCHANGED <<ss, reg, mf, build, arch, hvars, inp, rd>>

\* Back in Archive::write: a primary's tree is recorded, and the stream's
\* compression is reset to the archive's before the next grid.
AfterGrid ==
    /\ pc = "afterGrid"
    /\ wr' = [wr EXCEPT !.i = @ + 1,
                        !.treeMap = RecordPrimary(@, inp.grids[wr.i], wr.gd)]
    /\ strm' = RestoreCompression(strm, arch)
    /\ entry' = NoEntry
    /\ pc' = "grid"
    /\ UNCHANGED <<ss, reg, mf, build, arch, hvars, inp, os, descs, rd, err>>

\* Archive::write returns; its local stream metadata pointer goes away.
WriteReturn ==
    /\ pc = "grid"
    /\ wr.i > Len(inp.grids)
    /\ strm' = IF "write" \in strm.alive THEN Destroy(strm, "write") ELSE strm
    /\ pc' = "written"
    /\ UNCHANGED <<ss, reg, mf, build, arch, hvars, inp, os, wr, descs, entry, rd, err>>

-----------------------------------------------------------------------------
(* Reading the stream back: the header, then per grid the descriptor and   *)
(* Archive::readGrid, then Archive::connectInstance for every descriptor.  *)

\* A tree as Grid::createGrid makes it: no leaves, zero background.
EmptyTree(vtype) == [vtype |-> vtype, bg |-> 0, leaves |-> <<>>]

\* The reader is constructed on the stream: it reads the header, tags the
\* stream with file-level stream metadata, and reads the file metadata and
\* the grid count (Archive::readGridCount).
ReadStart ==
    /\ pc = "written"
    /\ LET a0 == [NewArchive(build) EXCEPT !.mEnableInstancing = inp.rinst]
           r == ReadHeader(a0, os[1].v, 0, build)
           s0 == setStreamMetadataPtr(
                     Declare(NewStream, "reader", [NewStreamMetadata EXCEPT !.mTest = inp.test]),
                     "reader", FALSE)
           s1 == setVersion(s0, r.arch.mLibMajor, r.arch.mLibMinor, r.arch.mFileVersion)
           s2 == setDataCompression(s1, r.arch.mCompression)
       IN  /\ strm' = s2
           /\ rd' = [NoReader EXCEPT !.arch = r.arch, !.pos = 4, !.gridCount = os[3].v]
           /\ err' = r.err
    /\ pc' = "read"
    /\ entry' = NoEntry
    /\ UNCHANGED <<ss, reg, mf, build, arch, hvars, inp, os, wr, descs>>

\* GridDescriptor::read followed by the creation of an empty grid of the
\* descriptor's type, flagged half-float as the descriptor says.
ReadDescriptor ==
    /\ pc = "read"
    /\ Len(rd.grids) < rd.gridCount
    /\ LET p == rd.pos
           gd == [ mGridName |-> stripSuffix(os[p].v), mUniqueName |-> os[p].v,
                   mInstanceParentName |->
                       IF getFormatVersion(strm) >= OPENVDB_FILE_VERSION_GRID_INSTANCING
                       THEN os[p + 2].v ELSE <<>>,
                   mGridType |-> os[p + 1].v.type, mSaveFloatAsHalf |-> os[p + 1].v.half,
                   mGridPos |-> os[p + 3].v[1], mBlockPos |-> os[p + 3].v[2],
                   mEndPos |-> os[p + 3].v[3] ]
           id == Len(rd.grids) + 1
       IN  rd' = [rd EXCEPT !.pos = p + 4, !.gd = gd,
                            !.grid = setSaveFloatAsHalf([NoGrid EXCEPT !.tree = id],
                                                        gd.mSaveFloatAsHalf),
                            !.trees = insertMeta(@, id, EmptyTree(gd.mGridType))]
    /\ entry' = [ op |-> "readGrid", slot |-> strm.pw.metadata, done |-> FALSE,
                  threw |-> FALSE, meta |-> BoundAtCall(strm) ]
    /\ pc' = "readGrid"
    /\ UNCHANGED <<ss, reg, mf, build, arch, hvars, inp, os, strm, wr, descs, err>>

\* Archive::readGridCompression
readGridCompression(st, o, p) ==
    IF getFormatVersion(st) >= OPENVDB_FILE_VERSION_NODE_MASK_COMPRESSION
    THEN [strm |-> setDataCompression(st, o[p].v), pos |-> p + 1]
    ELSE [strm |-> st, pos |-> p]

\* Archive::readGrid: the grid's compression is read, then doReadGrid's
\* OnExit guard remembers the slot and the grid-level copy of the stream
\* metadata is bound.
ReadGridEnter ==
    /\ pc = "readGrid"
    /\ LET c == readGridCompression(strm, os, rd.pos)
           meta == IF HasStreamMetadata(c.strm) THEN c.strm.sm[c.strm.pw.metadata]
                   ELSE NewStreamMetadata
           copy == [meta EXCEPT !.mHalfFloat = saveFloatAsHalf(rd.grid)]
           s1 == setStreamMetadataPtr(Declare(c.strm, "grid", copy), "grid", FALSE)
       IN  /\ strm' = setGridBackgroundValuePtr(setGridClass(s1, GRID_UNKNOWN), "null")
           /\ rd' = [rd EXCEPT !.pos = c.pos, !.restore = c.strm.pw.metadata]
    /\ pc' = "readGridBody"
    /\ UNCHANGED <<ss, reg, mf, build, arch, hvars, inp, os, wr, descs, entry, err>>

\* Grid::readTopology and Grid::readBuffers: the tree rebuilt from the
\* topology item at p and the leaf items after it.
ReadTree(o, p) ==
    [ vtype |-> o[p].v.vtype, bg |-> o[p].v.bg,
      leaves |-> [n \in 1..Len(o[p].v.masks) |->
                    [mask |-> o[p].v.masks[n], val |-> o[p + n].v.val]] ]
\* The same with the leaf items beginning at pb, wherever the topology was.
ReadTreeAt(o, p, pb) ==
    [ vtype |-> o[p].v.vtype, bg |-> o[p].v.bg,
      leaves |-> [n \in 1..Len(o[p].v.masks) |->
                    [mask |-> o[p].v.masks[n], val |-> o[pb + n - 1].v.val]] ]

\* The reads with the branch on the format version left out.
doReadGridOrderCurrent(version, instance) ==
    IF instance THEN <<"readTransform">>
    ELSE <<"readTransform", "readTopology", "readBuffers">>
\* The reads doReadGrid makes after readMeta, in the order it makes them.
doReadGridOrder(version, instance) ==
    IF version >= OPENVDB_FILE_VERSION_GRID_INSTANCING
    THEN IF instance THEN <<"readTransform">>
         ELSE <<"readTransform", "readTopology", "readBuffers">>
    ELSE <<"readTopology", "readTransform", "readBuffers">>
\* The place of a read in such an order, 0 if it is not made.
OrderIndex(order, op) ==
    IF \E i \in DOMAIN order : order[i] = op
    THEN CHOOSE i \in DOMAIN order : order[i] = op ELSE 0

\* The version test left out: no library counts as older.
NoLibraryIsOlder(st) == FALSE
\* "version.first < 6 || (version.first == 6 && version.second <= 1)" on
\* getLibraryVersion(is)
LibraryUpTo61(st) ==
    \/ st.iw.libraryMajorVersion < 6
    \/ (st.iw.libraryMajorVersion = 6 /\ st.iw.libraryMinorVersion <= 1)

\* doReadGrid from readMeta to its end: the grid, its tree, the stream
\* state and the stream position afterwards.
doReadGridBody(st, o, p, gd, grid) ==
    LET m0 == SeqToMeta(o[p].v)
        old == LibraryUpTo61(st)
        m1 == IF old /\ META_FILE_DELAYED_LOAD \in DOMAIN m0
              THEN removeMeta(m0, META_FILE_DELAYED_LOAD) ELSE m0
        s1 == [st EXCEPT !.sm["grid"].mGridMetadata = m1]
        s2 == setGridClass(s1, getGridClass([grid EXCEPT !.meta = m1]))
        m2 == IF s2.sm["grid"].mTest = 0 /\ META_FILE_DELAYED_LOAD \in DOMAIN m1
              THEN removeMeta(m1, META_FILE_DELAYED_LOAD) ELSE m1
        order == doReadGridOrder(getFormatVersion(s2), isInstance(gd))
        \* readTransform and readTopology take one item each, and readBuffers,
        \* which comes last, one per leaf of the topology read
        AtOf(op) == p + OrderIndex(order, op)
        pxf == AtOf("readTransform")
        ptop == AtOf("readTopology")
        hasTree == OrderIndex(order, "readTopology") # 0 /\ o[ptop].k = "topology"
        g2 == [grid EXCEPT !.meta = m2,
                           !.xform = IF o[pxf].k = "transform" THEN o[pxf].v ELSE 0]
        tree == IF hasTree THEN ReadTreeAt(o, ptop, AtOf("readBuffers"))
                ELSE EmptyTree(gd.mGridType)
        p2 == IF hasTree THEN AtOf("readBuffers") + Len(o[ptop].v.masks)
              ELSE p + Len(order) + 1
        g3 == IF getFormatVersion(s2) < OPENVDB_FILE_VERSION_NO_GRIDMAP /\ getName(g2) = <<>>
              THEN setName(g2, gd.mGridName) ELSE g2
    IN  [ strm |-> s2, grid |-> g3, tree |-> tree, pos |-> p2, afterMeta |-> p + 1,
          reads |-> [i \in DOMAIN order |->
                        [ op |-> order[i], at |-> p + i,
                          k |-> IF p + i <= Len(o) THEN o[p + i].k ELSE "end" ]] ]

\* doReadGrid, body.  Reading the transform, the topology or the buffers
\* may throw; the exception unwinds doReadGrid (its stream metadata, then
\* its OnExit guard).
ReadGridBody ==
    /\ pc = "readGridBody"
    /\ LET b == doReadGridBody(strm, os, rd.pos, rd.gd, rd.grid)
       IN  \/ /\ strm' = b.strm
              /\ rd' = [rd EXCEPT !.grid = b.grid, !.pos = b.pos,
                                  !.trees[rd.grid.tree] = b.tree, !.reads = b.reads]
              /\ pc' = "readGridExit"
              /\ UNCHANGED <<entry, err>>
           \/ /\ strm' = OnExit(Destroy(b.strm, "grid"), rd.restore)
              /\ rd' = [rd EXCEPT !.pos = b.afterMeta]
              /\ entry' = [entry EXCEPT !.done = TRUE, !.threw = TRUE]
              /\ err' = IoError
              /\ pc' = "failed"
    /\ UNCHANGED <<ss, reg, mf, build, arch, hvars, inp, os, wr, descs>>

\* doReadGrid, exit: the OnExit guard runs; the reader keeps the grid and
\* its descriptor and enters the grid in its name map.
ReadGridExit ==
    /\ pc = "readGridExit"
    /\ strm' = OnExit(Destroy(strm, "grid"), rd.restore)
    /\ rd' = [rd EXCEPT !.grids = Append(@, rd.grid), !.descs = Append(@, rd.gd),
                        !.named = insertMeta(@, rd.gd.mUniqueName, Len(rd.grids) + 1)]
    /\ entry' = [entry EXCEPT !.done = TRUE]
    /\ pc' = "read"
    /\ UNCHANGED <<ss, reg, mf, build, arch, hvars, inp, os, wr, descs, err>>


KeyError == "KeyError: missing instance parent"

\* Archive::connectInstance(gd, grids) on the reader's grids: the reader
\* afterwards and the error thrown, if any.  Sharing gives the grid the
\* parent's tree; copying gives it a new tree with the parent's contents.
connectInstanceNever(r, gd) == [rd |-> r, err |-> NoError]
\* The mutant: the parent's tree is shared whatever mEnableInstancing says.
connectInstanceAlwaysShares(r, gd) ==
    IF ~isInstance(gd) \/ DOMAIN r.named = {} THEN [rd |-> r, err |-> NoError]
    ELSE IF gd.mUniqueName \notin DOMAIN r.named THEN [rd |-> r, err |-> NoError]
    ELSE IF r.named[gd.mUniqueName] = 0 THEN [rd |-> r, err |-> NoError]
    ELSE IF gd.mInstanceParentName \in DOMAIN r.named
    THEN [ rd |-> [r EXCEPT !.grids[r.named[gd.mUniqueName]].tree =
                                r.grids[r.named[gd.mInstanceParentName]].tree],
           err |-> NoError ]
    ELSE [rd |-> r, err |-> KeyError]
\* A name mapped to 0 is mapped to a null grid pointer; the copy of a tree is
\* a tree object that did not exist before.
connectInstance(r, gd) ==
    IF ~isInstance(gd) \/ DOMAIN r.named = {} THEN [rd |-> r, err |-> NoError]
    ELSE IF gd.mUniqueName \notin DOMAIN r.named THEN [rd |-> r, err |-> NoError]
    ELSE IF r.named[gd.mUniqueName] = 0 THEN [rd |-> r, err |-> NoError]
    ELSE IF gd.mInstanceParentName \in DOMAIN r.named
    THEN LET g == r.named[gd.mUniqueName]
             parent == r.named[gd.mInstanceParentName]
             copy == CHOOSE t \in 1..(Cardinality(DOMAIN r.trees) + 1) :
                        t \notin DOMAIN r.trees
         IN  IF r.arch.mEnableInstancing
             THEN [ rd |-> [r EXCEPT !.grids[g].tree = r.grids[parent].tree],
                    err |-> NoError ]
             ELSE [ rd |-> [r EXCEPT !.grids[g].tree = copy,
                                     !.trees = insertMeta(@, copy,
                                                   r.trees[r.grids[parent].tree])],
                    err |-> NoError ]
    ELSE [rd |-> r, err |-> KeyError]

\* Every grid has been read: the reader turns to the instances.
ReadAllDone ==
    /\ pc = "read"
    /\ Len(rd.grids) = rd.gridCount
    /\ rd' = [rd EXCEPT !.ci = 1]
    /\ pc' = "connect"
    /\ UNCHANGED <<ss, reg, mf, build, arch, hvars, inp, os, strm, wr, descs, entry, err>>

\* Archive::connectInstance for the next descriptor.
ConnectInstance ==
    /\ pc = "connect"
    /\ rd.ci <= Len(rd.descs)
    /\ LET c == connectInstance(rd, rd.descs[rd.ci])
       IN  /\ rd' = [c.rd EXCEPT !.ci = @ + 1]
           /\ err' = c.err
           /\ pc' = IF c.err = NoError THEN "connect" ELSE "failed"
    /\ UNCHANGED <<ss, reg, mf, build, arch, hvars, inp, os, strm, wr, descs, entry>>

\* The reader has connected every instance.
ReadReturn ==
    /\ pc = "connect"
    /\ rd.ci > Len(rd.descs)
    /\ pc' = "done"
    /\ UNCHANGED <<ss, reg, mf, build, arch, hvars, inp, os, strm, wr, descs, entry, rd, err>>

Next ==
    \/ WriteStart \/ SkipNull \/ BeginGrid \/ WriteGridEnter \/ WriteGridBody
    \/ WriteGridExit \/ WriteGridInstance \/ AfterGrid \/ WriteReturn
    \/ ReadStart \/ ReadDescriptor \/ ReadGridEnter \/ ReadGridBody \/ ReadGridExit
    \/ ReadAllDone \/ ConnectInstance \/ ReadReturn

Spec == Init /\ [][Next]_vars

-----------------------------------------------------------------------------
(* Properties of Archive::write and of the read of what it wrote (checked  *)
(* under Spec).                                                            *)

HasBit(x, b) == (x \div b) % 2 = 1

\* The grid Archive::write is working on.
CurrentGrid == inp.grids[wr.i]

\* C1: when a per-grid read (Archive::readGrid / doReadGrid) or a per-grid
\* write (Archive::writeGrid, Archive::writeGridInstance) has come back,
\* normally or by an exception, the stream's metadata pointer slot holds
\* the value it held when the call was made.
C1_SlotRestoredOnEveryExit ==
    entry.done => strm.pw.metadata = entry.slot

\* A writeGrid call that threw after it had bound its grid-level copy over
\* the stream metadata the caller of Archive::write had bound.
C1_Witness ==
    /\ entry.done /\ entry.threw
    /\ entry.op = "writeGrid"
    /\ entry.slot = "caller"
    /\ strm.pw.metadata = "caller"

\* C4: the descriptor names Archive::write assigns are pairwise distinct,
\* and the renaming loop stops after at most one step per name already
\* assigned.
C4_UniqueDescriptorNames ==
    /\ \A i, j \in DOMAIN descs :
          i # j => descs[i].gd.mUniqueName # descs[j].gd.mUniqueName
    /\ pc \in {"writeGrid", "writeGridInstance"} =>
          /\ \A i \in DOMAIN descs : descs[i].gd.mUniqueName # wr.gd.mUniqueName
          /\ wr.renames <= Len(descs) + 1

\* Three grids written, one unnamed and one named like another grid's
\* suffixed name, the last one renamed by the loop.
C4_Witness ==
    /\ pc = "written"
    /\ Len(descs) = 3
    /\ \E i \in DOMAIN inp.grids : ~IsNull(inp.grids[i]) /\ getName(inp.grids[i]) = <<>>
    /\ \E i, j \in DOMAIN inp.grids :
          /\ i # j /\ ~IsNull(inp.grids[i]) /\ ~IsNull(inp.grids[j])
          /\ getName(inp.grids[i]) = addSuffix(getName(inp.grids[j]), 0)
    /\ wr.renames > 1

\* The items of the k-th written grid: its compression word, its metadata
\* and its n-th leaf buffer.
CompressionOf(k) == os[descs[k].at + 1]
MetaOf(k) == SeqToMeta(os[descs[k].at + 2].v)
LeafOf(k, n) == os[descs[k].at + 4 + n]

\* C5: for every primary grid of a supported value type, each per-leaf
\* compressed size recorded in the written DelayedLoadMetadata equals the
\* size of that leaf's buffer as it was stored.
C5_RecordedSizesMatchDisk ==
    \A k \in DOMAIN descs :
        (~isInstance(descs[k].gd) /\ descs[k].gd.mGridType \in AllowedTypes
            /\ META_FILE_DELAYED_LOAD \in DOMAIN MetaOf(k)) =>
        \A n \in DOMAIN MetaOf(k)[META_FILE_DELAYED_LOAD].size :
            MetaOf(k)[META_FILE_DELAYED_LOAD].size[n] = LeafOf(k, n).v.disk

\* C6: setGridCompression writes, and sets as the stream's compression,
\* the archive's flags with ZIP cleared for a LEVEL_SET or FOG_VOLUME grid
\* and unchanged otherwise; no other bit differs, and the archive's own
\* flags stay as they were.
C6_GridCompression ==
    pc \in {"writeGridExit", "afterGrid"} =>
        LET w == os[wr.offsetIdx + 1]
            cls == getGridClass(CurrentGrid)
        IN  /\ w.k = "compression" /\ w.n = 4
            /\ getDataCompression(strm) = w.v
            /\ w.v \in 0..15
            /\ \A b \in {COMPRESS_ZIP, COMPRESS_ACTIVE_MASK, COMPRESS_BLOSC, UNKNOWN_FLAG} :
                  HasBit(w.v, b) <=>
                      /\ HasBit(inp.comp, b)
                      /\ ~(b = COMPRESS_ZIP /\ cls \in {GRID_LEVEL_SET, GRID_FOG_VOLUME})
            /\ arch.mCompression = inp.comp

\* A level set written under ZIP and a bit no codec owns: ZIP is cleared
\* and the other bit kept.
C6_Witness ==
    /\ pc = "afterGrid"
    /\ getGridClass(CurrentGrid) = GRID_LEVEL_SET
    /\ inp.comp = COMPRESS_ZIP + UNKNOWN_FLAG
    /\ os[wr.offsetIdx + 1].v = UNKNOWN_FLAG


\* The grid read back for the k-th written grid, its tree, and the grid it
\* was written from.
ReadGrid(k) == rd.grids[k]
ReadTreeOf(k) == rd.trees[rd.grids[k].tree]
Original(k) == inp.grids[descs[k].idx]
OriginalTree(k) == InputTrees[Original(k).tree]

\* The input is a list of grids of pairwise distinct types, all named.
DistinctTypesAndNamed ==
    /\ \A i \in DOMAIN inp.grids : ~IsNull(inp.grids[i]) /\ getName(inp.grids[i]) # <<>>
    /\ \A i, j \in DOMAIN inp.grids :
          i # j => GridType(inp.grids[i]) # GridType(inp.grids[j])

StatsKeys ==
    { META_FILE_BBOX_MIN, META_FILE_BBOX_MAX, META_FILE_MEM_BYTES, META_FILE_VOXEL_COUNT,
      META_FILE_COMPRESSION }

\* The grid is stored with 16-bit reals.
StoredAsHalf(k) == saveFloatAsHalf(Original(k)) /\ OriginalTree(k).vtype \in RealTypes

\* A value as it comes back from the file of the k-th grid.
AsStored(k, v) == IF StoredAsHalf(k) THEN 2 * (v \div 2) ELSE v

SameNameTransformTopology(k) ==
    /\ getName(ReadGrid(k)) = getName(Original(k))
    /\ ReadGrid(k).xform = Original(k).xform
    /\ ReadTreeOf(k).vtype = OriginalTree(k).vtype
    /\ Len(ReadTreeOf(k).leaves) = Len(OriginalTree(k).leaves)
    /\ \A n \in DOMAIN OriginalTree(k).leaves :
          ReadTreeOf(k).leaves[n].mask = OriginalTree(k).leaves[n].mask

\* The statement of C2 as written: grids of distinct types with non-empty
\* names come back equal in name, metadata map, transform, topology and
\* voxel contents.
C2_Original ==
    (pc = "done" /\ DistinctTypesAndNamed) =>
        \A k \in DOMAIN descs :
            /\ SameNameTransformTopology(k)
            /\ ReadGrid(k).meta = Original(k).meta
            /\ ReadTreeOf(k) = OriginalTree(k)

\* C2: grids of distinct types with non-empty names come back equal in
\* name, transform and topology.  Voxel and background values come back as
\* they were, truncated to 16-bit precision where a real-valued grid is
\* saved as half float.  The metadata map comes back as it was except for
\* the file keys: file_delayed_load is absent unless the reader's test hook
\* is set and the value type supports it, and when grid statistics are
\* enabled the five statistics keys are present with the values computed
\* at write time.
C2_RoundTrip ==
    (pc = "done" /\ DistinctTypesAndNamed) =>
        \A k \in DOMAIN descs :
            /\ SameNameTransformTopology(k)
            /\ ReadTreeOf(k).bg = AsStored(k, OriginalTree(k).bg)
            /\ \A n \in DOMAIN OriginalTree(k).leaves :
                  ReadTreeOf(k).leaves[n].val = AsStored(k, OriginalTree(k).leaves[n].val)
            /\ \A key \in (DOMAIN Original(k).meta \cup DOMAIN ReadGrid(k).meta)
                          \ (StatsKeys \cup {META_FILE_DELAYED_LOAD}) :
                  /\ key \in DOMAIN Original(k).meta
                  /\ key \in DOMAIN ReadGrid(k).meta
                  /\ ReadGrid(k).meta[key] = Original(k).meta[key]
            /\ META_FILE_DELAYED_LOAD \in DOMAIN ReadGrid(k).meta <=>
                  (inp.test # 0 /\ OriginalTree(k).vtype \in AllowedTypes)
            /\ IF inp.stats
               THEN /\ StatsKeys \subseteq DOMAIN ReadGrid(k).meta
                    /\ ReadGrid(k).meta[META_FILE_VOXEL_COUNT]
                           = activeVoxelCount(OriginalTree(k))
                    /\ ReadGrid(k).meta[META_FILE_MEM_BYTES] = memUsage(OriginalTree(k))
                    /\ ReadGrid(k).meta[META_FILE_BBOX_MIN]
                           = evalActiveVoxelBoundingBox(OriginalTree(k)).min
                    /\ ReadGrid(k).meta[META_FILE_BBOX_MAX]
                           = evalActiveVoxelBoundingBox(OriginalTree(k)).max
                    /\ ReadGrid(k).meta[META_FILE_COMPRESSION]
                           = compressionToString(CompressionOf(k).v)
               ELSE \A key \in StatsKeys :
                       /\ key \in DOMAIN ReadGrid(k).meta <=> key \in DOMAIN Original(k).meta
                       /\ key \in DOMAIN ReadGrid(k).meta =>
                             ReadGrid(k).meta[key] = Original(k).meta[key]

\* Two grids read back with statistics enabled, one of them a half-float
\* grid whose values lose precision, the other carrying user metadata and a
\* stale statistic.
C2_Witness ==
    /\ pc = "done" /\ DistinctTypesAndNamed
    /\ Len(rd.grids) = 2
    /\ inp.stats
    /\ \E k \in DOMAIN descs :
          StoredAsHalf(k) /\ ReadTreeOf(k) # OriginalTree(k)
    /\ \E k \in DOMAIN descs :
          /\ META_GRID_CREATOR \in DOMAIN ReadGrid(k).meta
          /\ META_FILE_MEM_BYTES \in DOMAIN Original(k).meta
          /\ ReadGrid(k).meta[META_FILE_MEM_BYTES] # Original(k).meta[META_FILE_MEM_BYTES]


\* The largest element of a non-empty set of numbers.
Max(S) == CHOOSE x \in S : \A y \in S : y <= x

\* Whether the j-th grid of a list goes to the file with its tree when
\* instancing is enabled: it does unless the most recent earlier grid of
\* the same tree that went with its tree has the same half-float flag.
RECURSIVE GoesWithTree(_, _)
GoesWithTree(gs, j) ==
    LET prev == {k \in 1..(j - 1) : gs[k].tree = gs[j].tree /\ GoesWithTree(gs, k)}
    IN  prev = {} \/ saveFloatAsHalf(gs[Max(prev)]) # saveFloatAsHalf(gs[j])

\* The grid whose tree on file the j-th grid refers to.
TreeSource(gs, j) ==
    IF GoesWithTree(gs, j) THEN j
    ELSE Max({k \in 1..(j - 1) : gs[k].tree = gs[j].tree /\ GoesWithTree(gs, k)})

\* Two grids of the input that share one tree object.
SharingPairs ==
    { p \in (DOMAIN descs) \X (DOMAIN descs) :
        p[1] < p[2] /\ Original(p[1]).tree = Original(p[2]).tree }

ShareOnRead(p) == ReadGrid(p[1]).tree = ReadGrid(p[2]).tree

\* The statement of C3 as written: two grids that share a tree come back
\* sharing one tree when instancing is enabled, and come back with
\* separate trees when instancing is disabled on write.
C3_Original ==
    pc = "done" =>
        \A p \in SharingPairs :
            /\ (inp.winst /\ inp.rinst) => ShareOnRead(p)
            /\ ~inp.winst => ~ShareOnRead(p)

\* C3: two grids that share a tree come back sharing one tree object
\* exactly when instancing is enabled on the writing and on the reading
\* archive and both grids refer to the same tree on file; a grid is written
\* as an instance of the most recently written primary of its tree when
\* that primary's half-float flag equals its own, and as a new primary
\* otherwise.
C3_SharedTreeRoundTrip ==
    pc = "done" =>
        \A p \in SharingPairs :
            ShareOnRead(p) <=>
                /\ inp.winst /\ inp.rinst
                /\ TreeSource(inp.grids, descs[p[1]].idx)
                       = TreeSource(inp.grids, descs[p[2]].idx)

\* Three grids of one tree, the first with the other half-float flag,
\* instancing enabled on both sides: after the round trip the first grid
\* has a tree of its own and the later two share one.
C3_Witness ==
    /\ pc = "done"
    /\ inp.winst /\ inp.rinst
    /\ Len(descs) = 3
    /\ \A k \in DOMAIN descs : Original(k).tree = Original(1).tree
    /\ saveFloatAsHalf(Original(1)) /\ ~saveFloatAsHalf(Original(2))
    /\ ~saveFloatAsHalf(Original(3))
    /\ ~ShareOnRead(<<1, 2>>) /\ ShareOnRead(<<2, 3>>)
    /\ ReadTreeOf(3) = ReadTreeOf(2)


\* A per-grid write has just returned normally.
GridWritten == entry.done /\ ~entry.threw /\ entry.op \in {"writeGrid", "writeGridInstance"}
\* The stream position at the end of item number k.
PosAfter(k) == tellp(SubSeq(os, 1, k))
ZeroOffsets(gd) == gd.mGridPos = 0 /\ gd.mBlockPos = 0 /\ gd.mEndPos = 0

\* C15: on a non-seekable stream every descriptor written, primary or
\* instance, carries grid-start, block-start and end offsets equal to zero, in
\* memory and in the stream, the writer never calls tellp or seekp, and a
\* per-grid write leaves every item it wrote as it wrote it.
C15_NonSeekableOffsetsZero ==
    ~inp.seekable
        => /\ wr.posCalls = 0
           /\ ZeroOffsets(wr.gd)
           /\ \A j \in 1..Len(descs) : ZeroOffsets(descs[j].gd)
           /\ \A k \in 1..Len(os) : os[k].k = "streamPos" => os[k].v = <<0, 0, 0>>
           /\ GridWritten => (os = wr.beforePatch /\ wr.pos = tellp(os))

\* C15 witness: a primary and an instance of it went to a non-seekable stream
\* and the write returned.
C15_Witness ==
    /\ pc = "written"
    /\ ~inp.seekable
    /\ \E i, j \in 1..Len(descs) : ~isInstance(descs[i].gd) /\ isInstance(descs[j].gd)
    /\ tellp(os) > 0

\* The offsets in the stream at the place the call recorded as offsetPos.
OffsetsOnDisk == os[wr.offsetIdx].v
\* The back-patch changed the 24 bytes of the offsets and nothing else, and
\* the stream stands at the end offset, which is the end of what was written.
OnlyOffsetsPatched ==
    /\ Len(os) = Len(wr.beforePatch)
    /\ \A k \in 1..Len(os) : k # wr.offsetIdx => os[k] = wr.beforePatch[k]
    /\ os[wr.offsetIdx].k = "streamPos" /\ wr.beforePatch[wr.offsetIdx].k = "streamPos"
    /\ os[wr.offsetIdx].n = 24 /\ wr.beforePatch[wr.offsetIdx].n = 24
    /\ wr.pos = OffsetsOnDisk[3]
    /\ wr.pos = tellp(os)
\* In the record just written: the item after which the grid's blocks start,
\* the topology, or for a record without topology the transform.
LastBeforeBlocks ==
    IF entry.op = "writeGrid" THEN wr.offsetIdx + 4 ELSE wr.offsetIdx + 3

\* C16 as stated: on a seekable stream, when writeGrid or writeGridInstance
\* has returned, the offsets in the stream at offsetPos are the positions
\* observed during the write (grid-start right after the placeholder offsets,
\* block-start right after the topology, end right after the last byte of the
\* record), the back-patch overwrote nothing outside the 24 bytes of the
\* offsets, and the stream's write position is the end offset.
C16_Original ==
    (inp.seekable /\ GridWritten)
        => /\ OffsetsOnDisk[1] = PosAfter(wr.offsetIdx)
           /\ OffsetsOnDisk[2] = PosAfter(LastBeforeBlocks)
           /\ OffsetsOnDisk[3] = PosAfter(Len(os))
           /\ OnlyOffsetsPatched

\* C16 as amended: the same for writeGrid; for writeGridInstance, which writes
\* no topology and never sets the block-start, the block-start in the stream
\* is zero and the other two offsets are the positions observed.
C16_Amended ==
    (inp.seekable /\ GridWritten)
        => /\ OffsetsOnDisk[1] = PosAfter(wr.offsetIdx)
           /\ entry.op = "writeGrid"
                => /\ os[LastBeforeBlocks].k = "topology"
                   /\ OffsetsOnDisk[2] = PosAfter(LastBeforeBlocks)
           /\ entry.op = "writeGridInstance" => OffsetsOnDisk[2] = 0
           /\ OffsetsOnDisk[3] = PosAfter(Len(os))
           /\ OnlyOffsetsPatched

\* C16 witness: writeGrid has returned from writing a second grid, one with
\* leaf buffers, to a seekable stream.
C16_Witness ==
    /\ inp.seekable
    /\ GridWritten
    /\ entry.op = "writeGrid"
    /\ Len(descs) = 2
    /\ OffsetsOnDisk[1] < OffsetsOnDisk[2]
    /\ OffsetsOnDisk[2] < OffsetsOnDisk[3]


\* The positions of the non-null entries of the input list, and the items of
\* the stream at which a grid record starts (a record starts with the
\* descriptor's unique name).
NonNullEntries == {i \in 1..Len(inp.grids) : ~IsNull(inp.grids[i])}
RecordStarts == {k \in 1..Len(os) : os[k].k = "uniqueName"}
\* The j-th smallest element of a set of numbers.
Nth(S, j) == CHOOSE x \in S : Cardinality({y \in S : y <= x}) = j

\* C17: Archive::write emits the header, then the archive-level metadata, then
\* a 32-bit grid count equal to the number of non-null entries of the list,
\* and then, when it has returned, one record per non-null entry in the order
\* of the list and none for a null entry; for an empty or all-null list the
\* count is 0 and no record follows.
C17_WriteOrder ==
    /\ pc \notin {"start", "idle", "instances"}
        => /\ Len(os) >= 3
           /\ os[1].k = "header" /\ os[2].k = "meta"
           /\ os[3] = Tok("gridCount", Cardinality(NonNullEntries), 4)
           /\ \A k \in 4..Len(os) : os[k].k \notin {"header", "gridCount"}
           /\ RecordStarts # {} => Nth(RecordStarts, 1) = 4
           /\ Cardinality(RecordStarts) <= Cardinality(NonNullEntries)
    /\ pc = "written"
        => /\ Cardinality(RecordStarts) = Cardinality(NonNullEntries)
           /\ \A j \in 1..Cardinality(NonNullEntries) :
                LET grid == inp.grids[Nth(NonNullEntries, j)]
                    k == Nth(RecordStarts, j)
                IN  /\ os[k + 1].k = "gridType"
                    /\ os[k + 1].v.type = GridType(grid)
                    /\ os[k + 6] = Tok("transform", grid.xform, 8)
           /\ NonNullEntries = {} => (os[3].v = 0 /\ Len(os) = 3)

\* C17 witness: a list whose first entry is null and whose other two are
\* grids has been written.
C17_Witness ==
    /\ pc = "written"
    /\ Len(inp.grids) = 3
    /\ NonNullEntries = {2, 3}
    /\ os[3].v = 2
    /\ Cardinality(RecordStarts) = 2


\* C22: with grid statistics enabled the metadata written for every grid,
\* primary or instance, holds file_bbox_min, file_bbox_max, file_mem_bytes,
\* file_voxel_count and a file_compression string for the per-grid
\* compression word; with statistics disabled the writer adds none of them.
C22_StatsWrittenForEveryGrid ==
    \A k \in DOMAIN descs :
        IF inp.stats
        THEN /\ StatsKeys \subseteq DOMAIN MetaOf(k)
             /\ MetaOf(k)[META_FILE_COMPRESSION] = compressionToString(CompressionOf(k).v)
             /\ MetaOf(k)[META_FILE_VOXEL_COUNT] = activeVoxelCount(OriginalTree(k))
             /\ MetaOf(k)[META_FILE_MEM_BYTES] = memUsage(OriginalTree(k))
        ELSE \A key \in StatsKeys \cap DOMAIN MetaOf(k) :
                /\ key \in DOMAIN Original(k).meta
                /\ MetaOf(k)[key] = Original(k).meta[key]

\* The case in which C22 fails: an instance was written with statistics
\* enabled and its metadata in the stream holds none of the five keys.
C22_InstanceWithoutStats ==
    /\ inp.stats
    /\ \E k \in DOMAIN descs :
        /\ isInstance(descs[k].gd)
        /\ StatsKeys \cap DOMAIN MetaOf(k) = {}


\* The keys Archive::writeGrid adds to what it writes.
TransientKeys == StatsKeys \cup {META_FILE_DELAYED_LOAD}

\* C23: Archive::write leaves the caller's grids as they were: during and
\* after the write, whatever the statistics and delayed-load settings, every
\* grid's metadata map (the file keys in particular) and tree are those of the
\* call's arguments; the entries the writer adds are in the metadata it wrote.
C23_CallerGridsUntouched ==
    pc # "start"
        => /\ Len(wr.grids) = Len(inp.grids)
           /\ \A i \in DOMAIN inp.grids :
                /\ wr.grids[i].tree = inp.grids[i].tree
                /\ DOMAIN wr.grids[i].meta = DOMAIN inp.grids[i].meta
                /\ \A key \in DOMAIN inp.grids[i].meta :
                      wr.grids[i].meta[key] = inp.grids[i].meta[key]
           /\ \A k \in DOMAIN descs :
                /\ (inp.stats /\ ~isInstance(descs[k].gd))
                      => StatsKeys \subseteq DOMAIN MetaOf(k)
                /\ \A key \in DOMAIN MetaOf(k) \ TransientKeys :
                      key \in DOMAIN Original(k).meta

\* C23 witness: a grid without any file key was written with statistics and
\* delayed-load metadata, and the write has returned.
C23_Witness ==
    /\ pc = "written"
    /\ inp.stats
    /\ \E k \in DOMAIN descs :
        /\ TransientKeys \subseteq DOMAIN MetaOf(k)
        /\ TransientKeys \cap DOMAIN wr.grids[descs[k].idx].meta = {}


\* Archive::write is inside its call for the current grid, or just back.
InGridCall ==
    pc \in {"writeGrid", "writeGridBody", "writeGridExit", "writeGridInstance", "afterGrid"}
WrittenAsInstance == entry.op = "writeGridInstance"

\* C26: a non-null grid is written as an instance exactly when instancing is
\* enabled, its tree is in the tree-to-descriptor map and the mapped
\* descriptor's half-float flag equals the grid's; its parent name is then the
\* mapped descriptor's unique name and the map stays as it is.  Otherwise it
\* is written as a primary and the map entry of its tree becomes the grid's own
\* descriptor, with instancing disabled too.  Nothing else changes the map.
C26_InstanceDecision ==
    /\ [](InGridCall =>
            LET grid == inp.grids[wr.i]
                mapped == grid.tree \in DOMAIN wr.treeMap
            IN  /\ WrittenAsInstance <=>
                      /\ arch.mEnableInstancing
                      /\ mapped
                      /\ wr.treeMap[grid.tree].mSaveFloatAsHalf = saveFloatAsHalf(grid)
                /\ WrittenAsInstance =>
                      wr.gd.mInstanceParentName = wr.treeMap[grid.tree].mUniqueName
                /\ ~WrittenAsInstance => (entry.op = "writeGrid" /\ ~isInstance(wr.gd)))
    /\ [][ IF pc = "afterGrid"
           THEN IF WrittenAsInstance
                THEN wr'.treeMap = wr.treeMap
                ELSE /\ DOMAIN wr'.treeMap = DOMAIN wr.treeMap \cup {inp.grids[wr.i].tree}
                     /\ \A t \in DOMAIN wr'.treeMap :
                          wr'.treeMap[t] = IF t = inp.grids[wr.i].tree
                                           THEN descs[Len(descs)].gd
                                           ELSE wr.treeMap[t]
           ELSE pc # "start" => wr'.treeMap = wr.treeMap ]_vars

\* With instancing enabled a grid whose tree is in the map under the other
\* half-float flag has been written as a primary.
C26_Witness ==
    /\ pc = "afterGrid"
    /\ entry.op = "writeGrid"
    /\ inp.grids[wr.i].tree \in DOMAIN wr.treeMap
    /\ arch.mEnableInstancing
    /\ wr.treeMap[inp.grids[wr.i].tree].mSaveFloatAsHalf # saveFloatAsHalf(inp.grids[wr.i])

\* The descriptors written so far that are instances.
InstanceDescs == {k \in DOMAIN descs : isInstance(descs[k].gd)}

\* C27: the parent name of every instance descriptor written is the unique
\* name of a descriptor written earlier in the same archive that is a primary
\* and whose grid has the instance's tree and half-float flag; no other
\* descriptor has that name.
C27_ParentIsEarlierPrimary ==
    \A k \in InstanceDescs :
        /\ \E j \in 1..(k - 1) :
            /\ descs[j].gd.mUniqueName = descs[k].gd.mInstanceParentName
            /\ ~isInstance(descs[j].gd)
            /\ Original(j).tree = Original(k).tree
            /\ saveFloatAsHalf(Original(j)) = saveFloatAsHalf(Original(k))
            /\ descs[j].gd.mSaveFloatAsHalf = descs[k].gd.mSaveFloatAsHalf
        /\ \A j \in DOMAIN descs :
            descs[j].gd.mUniqueName = descs[k].gd.mInstanceParentName => j < k

\* An archive has been written whose second and third grid are both instances
\* of the first.
C27_Witness ==
    /\ pc = "written"
    /\ Len(descs) = 3
    /\ InstanceDescs = {2, 3}
    /\ descs[3].gd.mInstanceParentName = descs[1].gd.mUniqueName

\* The k-th grid written shares its tree and its half-float flag with a grid
\* written before it.
SharesWithEarlier(k) ==
    \E j \in 1..(k - 1) :
        /\ Original(j).tree = Original(k).tree
        /\ saveFloatAsHalf(Original(j)) = saveFloatAsHalf(Original(k))
\* The records of the stream that carry a topology, each with the index of
\* the descriptor it belongs to.
TopologiesOf(tree, half) ==
    { k \in DOMAIN descs :
        /\ Original(k).tree = tree
        /\ saveFloatAsHalf(Original(k)) = half
        /\ ~isInstance(descs[k].gd) }

\* C28: with instancing enabled every grid that shares tree and half-float
\* flag with a grid written earlier in the call is written as an instance,
\* whatever was written in between, so that a tree's topology and buffers are
\* written at most once per half-float setting.
C28_OncePerHalfSetting ==
    arch.mEnableInstancing =>
        /\ \A k \in DOMAIN descs : SharesWithEarlier(k) => isInstance(descs[k].gd)
        /\ \A k \in DOMAIN descs :
            Cardinality(TopologiesOf(Original(k).tree, saveFloatAsHalf(Original(k)))) <= 1

\* Three grids on one tree, the second with the other half-float flag, have
\* been written with instancing enabled, and all three are primaries.
C28_TreeWrittenTwice ==
    /\ pc = "written"
    /\ arch.mEnableInstancing
    /\ Len(descs) = 3
    /\ Original(1).tree = Original(2).tree /\ Original(2).tree = Original(3).tree
    /\ saveFloatAsHalf(Original(1)) = saveFloatAsHalf(Original(3))
    /\ saveFloatAsHalf(Original(2)) # saveFloatAsHalf(Original(1))
    /\ InstanceDescs = {}
    /\ Cardinality({k \in 4..Len(os) : os[k].k = "topology"}) = 3

\* The non-null grids of the list that have the name of the k-th grid written.
SameNamed(k) ==
    {i \in NonNullEntries : getName(inp.grids[i]) = getName(Original(k))}
\* The name is the grid's own name with a numeric suffix.
Suffixed(k) ==
    \E n \in 0..Len(inp.grids) :
        descs[k].gd.mUniqueName = addSuffix(getName(Original(k)), n)

\* C29: a grid with an empty name is written under a suffixed name; grids that
\* share a non-empty name are all written under suffixed names, the first one
\* too, and under different ones; a grid whose non-empty name no other grid of
\* the list has and no descriptor written before it bears keeps its name.
C29_SuffixingRule ==
    \A k \in DOMAIN descs :
        LET name == getName(Original(k)) IN
        /\ name = <<>> => Suffixed(k)
        /\ (name # <<>> /\ Cardinality(SameNamed(k)) > 1)
              => /\ Suffixed(k)
                 /\ \A j \in DOMAIN descs :
                      (j # k /\ getName(Original(j)) = name)
                          => descs[j].gd.mUniqueName # descs[k].gd.mUniqueName
        /\ ( /\ name # <<>>
             /\ Cardinality(SameNamed(k)) = 1
             /\ \A j \in 1..(k - 1) : descs[j].gd.mUniqueName # name )
              => descs[k].gd.mUniqueName = name

\* Two grids of one name, then a grid named like the first one's suffixed
\* name, have been written: the third finds its name taken.
C29_Witness ==
    /\ pc = "written"
    /\ Len(descs) = 3
    /\ getName(Original(1)) = NameA /\ getName(Original(2)) = NameA
    /\ getName(Original(3)) = addSuffix(NameA, 0)
    /\ descs[1].gd.mUniqueName = addSuffix(NameA, 0)
    /\ descs[2].gd.mUniqueName = addSuffix(NameA, 1)
    /\ descs[3].gd.mUniqueName = addSuffix(addSuffix(NameA, 0), 1)

\* The value types populateDelayedLoadMetadata is instantiated for.
SupportedValueTypes == {"int32", "int64", "float", "double", "vec3i", "vec3s", "vec3d"}
\* ZIP or BLOSC is among the flags writeGrid hands populateDelayedLoadMetadata,
\* the archive's.
ZipOrBloscGiven ==
    BitAnd(inp.comp, COMPRESS_ZIP) # 0 \/ BitAnd(inp.comp, COMPRESS_BLOSC) # 0
PrimaryDescs == {k \in DOMAIN descs : ~isInstance(descs[k].gd)}

\* C32: populateDelayedLoadMetadata fails exactly for a grid whose value type
\* is not in the supported list, and the metadata writeGrid writes lacks
\* file_delayed_load exactly then; for a supported grid with L leaves the
\* entry's mask array has L elements and its compressed-size array has L
\* elements when ZIP or BLOSC is among the flags given and none otherwise, so
\* both are empty for L = 0.
C32_DelayedLoadPopulated ==
    /\ \A k \in PrimaryDescs :
        LET t == OriginalTree(k)
            L == Len(t.leaves)
            supported == t.vtype \in SupportedValueTypes
        IN  /\ META_FILE_DELAYED_LOAD \in DOMAIN MetaOf(k) <=> supported
            /\ supported =>
                LET dlm == MetaOf(k)[META_FILE_DELAYED_LOAD]
                IN  /\ Len(dlm.mask) = L
                    /\ Len(dlm.size) = IF ZipOrBloscGiven THEN L ELSE 0
    /\ \A g \in {inp.grids[i] : i \in NonNullEntries} :
        populateDelayedLoadMetadata(DelayedLoadMetadata, g, InputTrees[g.tree], inp.comp).ok
            <=> InputTrees[g.tree].vtype \in SupportedValueTypes

\* Under ZIP a grid of an unsupported type, which brought an entry of its own,
\* and a grid with leaves of a supported type have been written: the first
\* without the entry, the second with one size per leaf.
C32_Witness ==
    /\ pc = "written"
    /\ ZipOrBloscGiven
    /\ \E j, k \in PrimaryDescs :
        /\ OriginalTree(j).vtype \notin SupportedValueTypes
        /\ META_FILE_DELAYED_LOAD \in DOMAIN Original(j).meta
        /\ META_FILE_DELAYED_LOAD \notin DOMAIN MetaOf(j)
        /\ OriginalTree(k).vtype \in SupportedValueTypes
        /\ Len(MetaOf(k)[META_FILE_DELAYED_LOAD].size) = 2

\* The points of Archive::write after the stream is tagged, and of a per-grid
\* read after readGridCompression.
WritePoints ==
    {"grid", "writeGrid", "writeGridBody", "writeGridExit", "writeGridInstance", "afterGrid"}
ReadPoints == {"readGridBody", "readGridExit"}
\* Every legacy slot of the stream holds what the bound StreamMetadata holds.
SlotsMatchBound ==
    LET m == strm.sm[strm.pw.metadata] IN
    /\ strm.iw.fileVersion = m.mFileVersion
    /\ strm.iw.libraryMajorVersion = m.mLibMajor
    /\ strm.iw.libraryMinorVersion = m.mLibMinor
    /\ strm.iw.dataCompression = m.mCompression
    /\ strm.iw.gridClass = m.mGridClass
    /\ (strm.iw.halfFloat # 0) = m.mHalfFloat
    /\ (strm.iw.writeGridStatsMetadata # 0) = m.mWriteGridStats
    /\ strm.pw.gridBackground = m.mBackgroundPtr

\* C33: wherever in Archive::write, or in a per-grid read or write, a
\* StreamMetadata is bound to the stream, the stream's slots for the file
\* version, the library version, the compression, the grid class, the
\* half-float flag, the write-stats flag and the background pointer hold the
\* values of the bound StreamMetadata's fields; and between two grids of
\* Archive::write the compression and the write-stats flag are the archive's.
C33_SourcesInSync ==
    /\ (pc \in WritePoints \cup ReadPoints /\ HasStreamMetadata(strm)) => SlotsMatchBound
    /\ pc = "grid" =>
        /\ getDataCompression(strm) = arch.mCompression
        /\ getWriteGridStatsMetadata(strm) = arch.mEnableGridStats

\* writeGrid has bound its grid-level copy, made for a half-float grid from
\* the metadata the caller had bound with transfer: the copy says half-float
\* and the stream's half-float slot says not.
C33_HalfFloatSlotStale ==
    /\ pc = "writeGridBody"
    /\ entry.slot = "caller"
    /\ strm.pw.metadata = "grid"
    /\ strm.sm["grid"].mHalfFloat
    /\ strm.iw.halfFloat = 0
    /\ strm.iw.fileVersion = strm.sm["grid"].mFileVersion

\* The points at which Archive::write is about to write a grid, is between
\* two grids, or has returned after the last one.
BetweenGrids == {"grid", "writeGrid", "writeGridInstance", "written"}
\* C35: when the write of a grid begins and after the last grid has been
\* written, the compression slot of the stream, and the compression of the
\* file-level StreamMetadata bound to the stream, are the archive's
\* compression, whatever flags the grids written before have cleared.
C35_CompressionRestored ==
    (pc \in BetweenGrids /\ err = NoError) =>
        /\ strm.iw.dataCompression = arch.mCompression
        /\ strm.pw.metadata \in strm.alive =>
               strm.sm[strm.pw.metadata].mCompression = arch.mCompression
\* The last grid has been written, and an earlier primary and an earlier
\* instance were written with flags other than the archive's.
C35_Witness ==
    /\ pc = "grid"
    /\ wr.i > Len(inp.grids)
    /\ strm.pw.metadata \in strm.alive
    /\ \E j, k \in DOMAIN descs :
           /\ ~isInstance(descs[j].gd) /\ isInstance(descs[k].gd)
           /\ os[descs[j].at + 1].v # arch.mCompression
           /\ os[descs[k].at + 1].v # arch.mCompression

\* Archive::write has returned, normally or by an exception out of the write
\* of a grid.
WriteReturned ==
    \/ pc = "written"
    \/ pc = "failed" /\ entry.op \in {"writeGrid", "writeGridInstance"}
\* C36: when Archive::write has returned, normally or by an exception, on a
\* stream that had no StreamMetadata bound when it was called, the stream's
\* metadata pointer slot is null or holds the address of a handle that is
\* still alive.
C36_SlotNullOrAlive ==
    (WriteReturned /\ ~inp.bound) =>
        \/ strm.pw.metadata = "null"
        \/ strm.pw.metadata \in strm.alive
\* Archive::write has returned normally and the slot still holds the address
\* of its local handle, which went out of scope at the return.
C36_SlotDangles ==
    /\ pc = "written"
    /\ ~inp.bound
    /\ strm.pw.metadata = "write"
    /\ "write" \notin strm.alive

\* A per-grid call has returned normally on a stream that had a StreamMetadata
\* bound when the call was made.
PerGridCallReturned ==
    /\ entry.op \in {"readGrid", "writeGrid", "writeGridInstance"}
    /\ entry.done /\ ~entry.threw
    /\ entry.meta.valid
    /\ entry.slot \in strm.alive
\* C37: when Archive::readGrid, writeGrid or writeGridInstance has returned,
\* every field of the file-level StreamMetadata that was bound to the stream
\* when the call was made holds the value it held then.
C37_FileLevelMetadataUntouched ==
    PerGridCallReturned => strm.sm[entry.slot] = entry.meta
\* writeGridInstance has returned from writing a level set under ZIP: the
\* file-level StreamMetadata said ZIP when the call was made and does not now.
C37_InstanceChangedFileLevel ==
    /\ PerGridCallReturned
    /\ entry.op = "writeGridInstance"
    /\ HasBit(entry.meta.mCompression, COMPRESS_ZIP)
    /\ ~HasBit(strm.sm[entry.slot].mCompression, COMPRESS_ZIP)

\* The three offsets in the stream for the k-th record written, and the
\* positions at which its placeholder offsets and its header begin.
StoredOffsets(k) == os[descs[k].at].v
OffsetPosOf(k) == PosAfter(descs[k].at - 1)
HeaderPos(j) == PosAfter(Nth(RecordStarts, j) - 1)
\* C38: on a seekable stream, for every primary written, offset_pos <
\* grid-start <= block-start <= end; for every grid written, grid-start <=
\* end; and the header of every record begins at the end offset of the record
\* written before it, the first one right after the grid count: a per-grid
\* write leaves the stream at the end offset it stored, which is the end of
\* the stream.
C38_OffsetsOrderedAndChained ==
    inp.seekable =>
        /\ \A k \in DOMAIN descs :
               LET d == StoredOffsets(k) IN
               /\ d = <<descs[k].gd.mGridPos, descs[k].gd.mBlockPos, descs[k].gd.mEndPos>>
               /\ d[1] <= d[3]
               /\ ~isInstance(descs[k].gd) =>
                      /\ OffsetPosOf(k) < d[1]
                      /\ d[1] <= d[2]
                      /\ d[2] <= d[3]
        /\ \A j \in 1..Cardinality(RecordStarts) :
               IF j = 1 THEN HeaderPos(j) = PosAfter(3)
               ELSE /\ j - 1 <= Len(descs)
                    /\ HeaderPos(j) = StoredOffsets(j - 1)[3]
        /\ GridWritten =>
               /\ Len(descs) > 0
               /\ wr.pos = StoredOffsets(Len(descs))[3]
               /\ wr.pos = tellp(os)
\* Three records went to a seekable stream: a primary with leaf buffers, an
\* instance of it, and a second primary.
C38_Witness ==
    /\ pc = "written"
    /\ inp.seekable
    /\ Len(descs) = 3
    /\ ~isInstance(descs[1].gd) /\ isInstance(descs[2].gd) /\ ~isInstance(descs[3].gd)
    /\ StoredOffsets(1)[2] < StoredOffsets(1)[3]
    /\ HeaderPos(2) = StoredOffsets(1)[3]
    /\ HeaderPos(3) = StoredOffsets(2)[3]
    /\ StoredOffsets(2)[2] = 0

-----------------------------------------------------------------------------
(* Archive::connectInstance on its own: an archive, a name-to-grid map as  *)
(* a caller may pass it (complete, partial or empty, possibly holding a    *)
(* null grid pointer), and descriptors connected against it one after the  *)
(* other.                                                                  *)

\* The number of connectInstance calls made on one map.
MaxCalls == 2

ConnectNames == <<NameA, NameB, NameC>>
\* Three grids, each with a tree of its own.
ConnectGrids == [k \in 1..3 |-> [meta |-> EmptyMeta, tree |-> k, xform |-> k]]
ConnectTrees == [k \in 1..3 |-> InputTrees[PositionTree[k]]]
\* The maps: each name is absent or stands for its grid; the third name may
\* also stand for a null pointer.
ConnectMaps ==
    { [n \in names |-> IF n \in nulls THEN 0
                       ELSE CHOOSE k \in 1..3 : ConnectNames[k] = n] :
        names \in SUBSET {NameA, NameB, NameC}, nulls \in SUBSET {NameC} }
\* The descriptors: any of the names, with no parent or any name as parent.
ConnectDescriptors ==
    { [GridDescriptor(n, "float", FALSE) EXCEPT !.mInstanceParentName = parent] :
        n \in {NameA, NameB, NameC}, parent \in {<<>>, NameA, NameB, NameC} }

NoCall == [op |-> "none", gd |-> NoGd, pre |-> NoReader, calls |-> 0]

CInit ==
    /\ build = "blosc"
    /\ arch = NewArchive(build)
    /\ hs = <<>> /\ hpos = 0 /\ hres = NoResult
    /\ hsrc = [kind |-> "none", seekable |-> FALSE, failAt |-> 0]
    /\ inp = <<>> /\ os = <<>> /\ strm = <<>> /\ wr = <<>> /\ descs = <<>>
    /\ \E named \in ConnectMaps, inst \in BOOLEAN :
        rd = [NoReader EXCEPT !.arch.mEnableInstancing = inst, !.gridCount = 3,
                              !.grids = ConnectGrids, !.trees = ConnectTrees,
                              !.named = named]
    /\ entry = NoCall
    /\ pc = "instances"
    /\ err = NoError
    /\ mf = NoMappedFile
    /\ reg = NewRegistry
    /\ ss = NoStreamStates

\* One call of connectInstance.  The parent, if it is in the map, is a grid
\* (the function dereferences it unchecked).
CallConnectInstance ==
    /\ pc = "instances"
    /\ entry.calls < MaxCalls
    /\ \E gd \in ConnectDescriptors :
        /\ gd.mInstanceParentName \in DOMAIN rd.named
              => rd.named[gd.mInstanceParentName] # 0
        /\ LET c == connectInstance(rd, gd)
           IN  /\ rd' = c.rd
               /\ err' = c.err
               /\ pc' = IF c.err = NoError THEN "instances" ELSE "failed"
               /\ entry' = [ op |-> "connectInstance", gd |-> gd, pre |-> rd,
                             calls |-> entry.calls + 1 ]
    /\ UNCHANGED <<ss, reg, mf, build, arch, hvars, inp, os, strm, wr, descs>>

CNext == CallConnectInstance

SpecConnect == CInit /\ [][CNext]_vars

\* connectInstance has just been called / has just returned normally.
Connected == entry.op = "connectInstance"
ConnectedOk == Connected /\ err = NoError

\* The grid a name stands for in the map the call was given (0: none).
GridNamed(n) == IF n \in DOMAIN entry.pre.named THEN entry.pre.named[n] ELSE 0

\* C13: for a descriptor that names an instance parent, when the map holds no
\* grid under the parent's name, connectInstance throws the missing-parent
\* KeyError (it does not return normally) and leaves every grid's tree as it
\* was.
C13_MissingParentFails ==
    (Connected /\ isInstance(entry.gd)
               /\ entry.gd.mInstanceParentName \notin DOMAIN entry.pre.named)
        => /\ err = KeyError
           /\ rd.grids = entry.pre.grids

\* The case C13 is about and the code rejects: the parent is missing, and so
\* is the map's entry for the grid itself, and the call returned normally.
C13_SilentReturn ==
    /\ ConnectedOk
    /\ isInstance(entry.gd)
    /\ entry.gd.mInstanceParentName \notin DOMAIN entry.pre.named
    /\ GridNamed(entry.gd.mUniqueName) = 0

\* C14: for an instance descriptor whose grid and parent grid are both in the
\* map, connectInstance gives the grid the parent's very tree object when
\* instancing is enabled, and a tree object that did not exist before with
\* the contents of the parent's tree when it is disabled; the parent's and
\* every other grid's tree, and every tree's contents, stay as they were.  A
\* descriptor that is not an instance changes nothing.
C14_ShareOrCopy ==
    /\ (Connected /\ isInstance(entry.gd)
                  /\ GridNamed(entry.gd.mUniqueName) # 0
                  /\ GridNamed(entry.gd.mInstanceParentName) # 0)
        => LET g == GridNamed(entry.gd.mUniqueName)
               parent == GridNamed(entry.gd.mInstanceParentName)
               old == entry.pre
           IN  /\ err = NoError
               /\ rd.arch.mEnableInstancing
                    => /\ rd.grids[g].tree = old.grids[parent].tree
                       /\ rd.trees = old.trees
               /\ ~rd.arch.mEnableInstancing
                    => /\ rd.grids[g].tree \notin DOMAIN old.trees
                       /\ rd.trees[rd.grids[g].tree] = old.trees[old.grids[parent].tree]
                       /\ \A t \in DOMAIN old.trees : rd.trees[t] = old.trees[t]
               /\ \A k \in 1..Len(old.grids) :
                    /\ k # g => rd.grids[k] = old.grids[k]
                    /\ rd.grids[k].meta = old.grids[k].meta
                    /\ rd.grids[k].xform = old.grids[k].xform
               /\ rd.named = old.named
    /\ (Connected /\ ~isInstance(entry.gd))
        => (err = NoError /\ rd = entry.pre)

\* C14 witness: with instancing disabled, a second call copied for a grid the
\* tree its parent had itself received as a copy.
C14_Witness ==
    /\ ConnectedOk
    /\ ~rd.arch.mEnableInstancing
    /\ entry.calls = 2
    /\ isInstance(entry.gd)
    /\ GridNamed(entry.gd.mUniqueName) # 0
    /\ GridNamed(entry.gd.mInstanceParentName) # 0
    /\ entry.gd.mUniqueName # entry.gd.mInstanceParentName
    /\ entry.pre.grids[GridNamed(entry.gd.mInstanceParentName)].tree > 3
    /\ rd.grids[GridNamed(entry.gd.mUniqueName)].tree > 3


-----------------------------------------------------------------------------
(* MappedFile: the object, the directory entry of the file it maps, and    *)
(* the log of what its constructor and destructor did to the file and to   *)
(* the notifier.  Other processes may remove or recreate the file.         *)

\* The number of setNotifier and clearNotifier calls on one MappedFile.
MaxNotifierCalls == 3
\* The number of times another process removes or recreates the file.
MaxEnvSteps == 1

\* The number of stream buffers alive at a time.
MaxBuffers == 2

FileNames == {"a.vdb", "tmp.vdb"}
\* Notifiers a caller may install (0 stands for the empty std::function).
Notifiers == {1, 2}

Event(e, id, arg) == [e |-> e, id |-> id, arg |-> arg]

\* MappedFile::Impl::Impl on an existing file; posix tells whether the build
\* is not a Windows build.
NewImpl(filename, autoDelete, posix) ==
    [ NoMappedFile EXCEPT
        !.state = "open", !.filename = filename, !.mAutoDelete = autoDelete,
        !.posix = posix,
        !.onDisk = ~(autoDelete /\ posix),
        !.log = IF autoDelete /\ posix THEN <<Event("unlink", 0, filename)>> ELSE <<>> ]

\* The removal in the destructor: removed tells whether file_mapping::remove
\* succeeded; a failure for a file that exists has errno other than ENOENT
\* and is logged as a warning.
RemoveEvents(m, removed) ==
    IF ~m.mAutoDelete THEN <<>>
    ELSE IF m.onDisk /\ removed THEN <<Event("remove", 0, m.filename)>>
    ELSE IF m.onDisk THEN <<Event("warn", 0, m.filename)>>
    ELSE <<>>
NotifyEvents(m) ==
    IF m.mNotifier # 0 THEN <<Event("notify", m.mNotifier, m.filename)>> ELSE <<>>

\* The mutant: the file is removed before the notifier is told.
DestroyImplRemoveFirst(m, removed) ==
    [ m EXCEPT !.state = "destroyed",
               !.log = @ \o RemoveEvents(m, removed) \o NotifyEvents(m),
               !.onDisk = @ /\ ~(m.mAutoDelete /\ removed) ]
\* MappedFile::Impl::~Impl
DestroyImpl(m, removed) ==
    [ m EXCEPT !.state = "destroyed",
               !.log = @ \o NotifyEvents(m) \o RemoveEvents(m, removed),
               !.onDisk = @ /\ ~(m.mAutoDelete /\ removed) ]

MInit ==
    /\ build = "blosc"
    /\ arch = NewArchive(build)
    /\ hs = <<>> /\ hpos = 0 /\ hres = NoResult
    /\ hsrc = [kind |-> "none", seekable |-> FALSE, failAt |-> 0]
    /\ inp = <<>> /\ os = <<>> /\ strm = <<>> /\ wr = <<>> /\ descs = <<>>
    /\ entry = <<>> /\ rd = <<>>
    /\ pc = "idle"
    /\ err = NoError
    /\ mf = NoMappedFile
    /\ reg = NewRegistry
    /\ ss = NoStreamStates

\* MappedFile::MappedFile
MappedFileOpen ==
    /\ mf.state = "none"
    /\ \E filename \in FileNames, autoDelete \in BOOLEAN, posix \in BOOLEAN :
        mf' = NewImpl(filename, autoDelete, posix)
    /\ UNCHANGED <<ss, reg, build, arch, hvars, wvars>>

\* MappedFile::setNotifier
setNotifier ==
    /\ mf.state = "open"
    /\ mf.calls < MaxNotifierCalls
    /\ \E notifier \in Notifiers :
        mf' = [mf EXCEPT !.mNotifier = notifier, !.calls = @ + 1]
    /\ UNCHANGED <<ss, reg, build, arch, hvars, wvars>>

\* MappedFile::clearNotifier
clearNotifier ==
    /\ mf.state = "open"
    /\ mf.calls < MaxNotifierCalls
    /\ mf' = [mf EXCEPT !.mNotifier = 0, !.calls = @ + 1]
    /\ UNCHANGED <<ss, reg, build, arch, hvars, wvars>>

\* Another process removes the file or creates a file of the same name.
OtherProcess ==
    /\ mf.state = "open"
    /\ mf.envSteps < MaxEnvSteps
    /\ mf' = [mf EXCEPT !.onDisk = ~@, !.envSteps = @ + 1]
    /\ UNCHANGED <<ss, reg, build, arch, hvars, wvars>>

\* A buffer holds the region's address and size and no reference to the
\* MappedFile; reading through it once the region is unmapped is undefined
\* behaviour, which may return the old bytes, return other bytes or crash.
ReadOutcomes(m) ==
    IF m.state = "open" THEN {"bytes"} ELSE {"bytes", "garbage", "crash"}

\* MappedFile::createBuffer: one more stream buffer over the mapped region.
createBuffer ==
    /\ mf.state = "open"
    /\ mf.buffers < MaxBuffers
    /\ mf' = [mf EXCEPT !.buffers = @ + 1]
    /\ UNCHANGED <<ss, reg, build, arch, hvars, wvars>>

\* A read through a buffer created earlier (a lazy leaf loads its values).
ReadThroughBuffer ==
    /\ mf.buffers > 0
    /\ mf.lastRead # "crash"
    /\ \E r \in ReadOutcomes(mf) : mf' = [mf EXCEPT !.lastRead = r]
    /\ UNCHANGED <<ss, reg, build, arch, hvars, wvars>>

\* The last owner of a buffer lets go of it.
ReleaseBuffer ==
    /\ mf.buffers > 0
    /\ mf.lastRead # "crash"
    /\ mf' = [mf EXCEPT !.buffers = @ - 1]
    /\ UNCHANGED <<ss, reg, build, arch, hvars, wvars>>

\* MappedFile::~MappedFile, which destroys the Impl.
MappedFileDestroy ==
    /\ mf.state = "open"
    /\ \E removed \in BOOLEAN : mf' = DestroyImpl(mf, removed)
    /\ UNCHANGED <<ss, reg, build, arch, hvars, wvars>>

MNext ==
    \/ MappedFileOpen \/ setNotifier \/ clearNotifier \/ OtherProcess
    \/ createBuffer \/ ReadThroughBuffer \/ ReleaseBuffer
    \/ MappedFileDestroy

SpecMapped == MInit /\ [][MNext]_vars


\* The positions in the log of the events of the given kinds.
EventsOf(kinds) == {k \in 1..Len(mf.log) : mf.log[k].e \in kinds}
Destroyed == mf.state = "destroyed"
\* What C20 says of the destructor apart from the order of notifier and
\* removal: a notifier set at destruction is invoked exactly once, with the
\* file's name; the file is removed only under auto-delete; a failed removal
\* gives at most one warning and no error; a cleared notifier is not invoked.
NotifiedOnceRemovedOnlyIfAutoDelete ==
    /\ mf.mNotifier # 0
        => /\ Cardinality(EventsOf({"notify"})) = 1
           /\ \A k \in EventsOf({"notify"}) :
                mf.log[k] = Event("notify", mf.mNotifier, mf.filename)
    /\ EventsOf({"unlink", "remove"}) # {} => mf.mAutoDelete
    /\ \A k \in EventsOf({"unlink", "remove"}) : mf.log[k].arg = mf.filename
    /\ Cardinality(EventsOf({"warn"})) <= 1
    /\ EventsOf({"warn"}) # {} => (mf.mAutoDelete /\ EventsOf({"remove"}) = {})
    /\ mf.err = NoError /\ err = NoError
    /\ mf.mNotifier = 0 => EventsOf({"notify"}) = {}

\* C20 as stated: when a MappedFile is destroyed, the notifier set at that
\* moment is invoked exactly once with the file's name and before any removal
\* of the file; the file is removed only if auto-delete is set; a removal
\* failure gives at most a warning and never an error; after clearNotifier no
\* notifier is invoked.
C20_Original ==
    Destroyed
        => /\ NotifiedOnceRemovedOnlyIfAutoDelete
           /\ \A k \in EventsOf({"notify"}) :
                \A r \in EventsOf({"unlink", "remove"}) : k < r

\* C20 as amended: the same, with the notifier invoked before the removal the
\* destructor attempts; with auto-delete on a build that is not a Windows
\* build the constructor has already unlinked the file, so that removal, and
\* only that one, comes before the notifier.
C20_Amended ==
    Destroyed
        => /\ NotifiedOnceRemovedOnlyIfAutoDelete
           /\ \A k \in EventsOf({"notify"}) :
                /\ \A r \in EventsOf({"remove", "warn"}) : k < r
                /\ \A r \in EventsOf({"unlink"}) :
                     r = 1 /\ r < k /\ mf.mAutoDelete /\ mf.posix
           /\ (mf.mAutoDelete /\ mf.posix) <=> EventsOf({"unlink"}) = {1}

\* C20 witness: a MappedFile with auto-delete whose notifier was cleared and
\* set again was destroyed; the notifier was invoked and the removal that
\* followed failed with a warning.
C20_Witness ==
    /\ Destroyed
    /\ mf.mAutoDelete
    /\ mf.calls = 3
    /\ mf.mNotifier = 2
    /\ \E k \in EventsOf({"notify"}) : \E r \in EventsOf({"warn"}) : k < r


\* C21: a stream buffer made by createBuffer keeps the mapping alive: while
\* any such buffer is alive the MappedFile has not been destroyed (the region
\* is still mapped), so every read through a buffer gives the file's bytes.
C21_BufferKeepsMapping ==
    /\ mf.buffers > 0 => mf.state # "destroyed"
    /\ mf.lastRead \in {"none", "bytes"}

\* The case C21 excludes: the MappedFile was destroyed while a buffer was
\* alive, and a read through the buffer did not give the file's bytes.
C21_DanglingRead ==
    /\ mf.state = "destroyed"
    /\ mf.buffers > 0
    /\ mf.lastRead = "garbage"

-----------------------------------------------------------------------------
\* The grid-type registry (Grid.cc): a map from type name to factory behind a
\* mutex.  Every operation takes a lock_guard on the mutex, runs its body and
\* releases the mutex when the guard goes out of scope, on return and on throw.

MaxRegistryCalls == 2
Factories == {1, 2}
RegistryOps ==
    {"isRegistered", "registerGrid", "unregisterGrid", "createGrid", "clearRegistry"}
\* The operations whose body begins with mMap.find(name).
FindingOps == {"isRegistered", "registerGrid", "createGrid"}

CanLockUnguarded(mutex) == mutex \in {0} \cup Threads

\* std::lock_guard's constructor: it returns once the mutex is free.
CanLock(mutex) == mutex = 0

MutexKeptOnThrow(t, threw) == IF threw THEN t ELSE 0

\* std::lock_guard's destructor runs when the scope is left, by return or by
\* an exception alike.
MutexAfterScope(t, threw) == 0

EraseName(map, name) == [n \in DOMAIN map \ {name} |-> map[n]]
InsertName(map, name, factory) ==
    [n \in DOMAIN map \cup {name} |-> IF n = name THEN factory ELSE map[n]]

\* GridBase::isRegistered
isRegistered(map, name, found) ==
    [ mMap |-> map, result |-> IF found THEN "true" ELSE "false" ]

registerGridOverwrites(map, name, factory, found) ==
    [ mMap |-> InsertName(map, name, factory), result |-> "ok" ]

\* GridBase::registerGrid
registerGrid(map, name, factory, found) ==
    IF found
    THEN [ mMap |-> map, result |-> "KeyError" ]
    ELSE [ mMap |-> InsertName(map, name, factory), result |-> "ok" ]

\* GridBase::unregisterGrid
unregisterGrid(map, name) ==
    [ mMap |-> EraseName(map, name), result |-> "ok" ]

\* GridBase::createGrid: the grid that the stored factory makes.
createGrid(map, name, found) ==
    IF ~found
    THEN [ mMap |-> map, result |-> "LookupError" ]
    ELSE [ mMap |-> map, result |-> IF map[name] = 1 THEN "grid1" ELSE "grid2" ]

\* GridBase::clearRegistry
clearRegistry(map) ==
    [ mMap |-> EmptyFactoryMap, result |-> "ok" ]

Threw(result) == result \in {"KeyError", "LookupError"}

\* A thread calls one of the five operations.
RegistryCall(t) ==
    /\ reg.th[t].pc = "idle"
    /\ reg.th[t].nops < MaxRegistryCalls
    /\ \E op \in RegistryOps, name \in GridTypeNames, factory \in Factories :
        /\ op # "registerGrid" => factory = 1
        /\ op = "clearRegistry" => name = "FloatGrid"
        /\ reg' = [reg EXCEPT !.th[t] =
                [ IdleThread EXCEPT !.pc = "lock", !.op = op, !.name = name,
                  !.factory = factory, !.nops = reg.th[t].nops ] ]
    /\ UNCHANGED <<ss, mf, build, arch, hvars, wvars>>

\* std::lock_guard<std::mutex> lock(registry->mMutex);
RegistryLock(t) ==
    /\ reg.th[t].pc = "lock"
    /\ CanLock(reg.mMutex)
    /\ reg' = [reg EXCEPT !.mMutex = t,
                          !.th[t].pc = IF reg.th[t].op \in FindingOps
                                       THEN "find" ELSE "body",
                          !.th[t].before = reg.mMap]
    /\ UNCHANGED <<ss, mf, build, arch, hvars, wvars>>

\* registry->mMap.find(name)
RegistryFind(t) ==
    /\ reg.th[t].pc = "find"
    /\ reg' = [reg EXCEPT !.th[t].found = reg.th[t].name \in DOMAIN reg.mMap,
                          !.th[t].before = reg.mMap,
                          !.th[t].pc = "body"]
    /\ UNCHANGED <<ss, mf, build, arch, hvars, wvars>>

\* The rest of the body, up to the return or the throw.
RegistryBody(t) ==
    /\ reg.th[t].pc = "body"
    /\ LET c == reg.th[t]
           r == IF c.op = "isRegistered" THEN isRegistered(reg.mMap, c.name, c.found)
                ELSE IF c.op = "registerGrid"
                     THEN registerGrid(reg.mMap, c.name, c.factory, c.found)
                ELSE IF c.op = "unregisterGrid" THEN unregisterGrid(reg.mMap, c.name)
                ELSE IF c.op = "createGrid" THEN createGrid(reg.mMap, c.name, c.found)
                ELSE clearRegistry(reg.mMap)
       IN  reg' = [reg EXCEPT
                !.mMap = r.mMap,
                !.th[t].result = r.result,
                !.th[t].before = reg.mMap,
                !.th[t].pc = "unlock",
                !.registered = [n \in GridTypeNames |->
                    IF c.op = "clearRegistry" THEN 0
                    ELSE IF n # c.name THEN reg.registered[n]
                    ELSE IF c.op = "unregisterGrid" THEN 0
                    ELSE IF c.op = "registerGrid" /\ r.result = "ok"
                         THEN reg.registered[n] + 1
                    ELSE reg.registered[n]],
                !.last = [n \in GridTypeNames |->
                    IF c.op = "clearRegistry" THEN "clearRegistry"
                    ELSE IF n # c.name THEN reg.last[n]
                    ELSE IF c.op = "unregisterGrid" THEN "unregisterGrid"
                    ELSE IF c.op = "registerGrid" /\ r.result = "ok"
                         THEN "registerGrid"
                    ELSE reg.last[n]]]
    /\ UNCHANGED <<ss, mf, build, arch, hvars, wvars>>

\* ~lock_guard, on the way out of the function.
RegistryUnlock(t) ==
    /\ reg.th[t].pc = "unlock"
    /\ reg' = [reg EXCEPT
                !.mMutex = IF reg.mMutex = t
                           THEN MutexAfterScope(t, Threw(reg.th[t].result))
                           ELSE reg.mMutex,
                !.th[t].pc = "idle",
                !.th[t].nops = reg.th[t].nops + 1]
    /\ UNCHANGED <<ss, mf, build, arch, hvars, wvars>>

\* The registry is a function-local static, constructed empty on first use.
RInit ==
    /\ MInit

RegistryStep(t) ==
    \/ RegistryLock(t)
    \/ RegistryFind(t)
    \/ RegistryBody(t)
    \/ RegistryUnlock(t)

RNext ==
    \/ \E t \in Threads : RegistryCall(t)
    \/ \E t \in Threads : RegistryLock(t)
    \/ \E t \in Threads : RegistryFind(t)
    \/ \E t \in Threads : RegistryBody(t)
    \/ \E t \in Threads : RegistryUnlock(t)

SpecRegistry == RInit /\ [][RNext]_vars

\* The scheduler runs every thread that can take a step.
SpecRegistryFair ==
    RInit /\ [][RNext]_vars /\ \A t \in Threads : WF_vars(RegistryStep(t))

\* The call of thread t whose body has run and whose guard is still in scope.
BodyDone(t) == reg.th[t].pc = "unlock"

\* C24: registerGrid of a registered name throws KeyError and leaves the map,
\* the stored factory included, as it was; createGrid of an unregistered name
\* throws LookupError and leaves the map as it was; unregisterGrid of an absent
\* name changes nothing; and a name is in the map, and isRegistered answers
\* true for it, exactly when the last operation that succeeded on the name was
\* a registerGrid.
C24_RegistryContract ==
    /\ \A t \in Threads : BodyDone(t) =>
        LET c == reg.th[t] IN
        /\ (c.op = "registerGrid" /\ c.name \in DOMAIN c.before)
              => (c.result = "KeyError" /\ reg.mMap = c.before)
        /\ (c.op = "registerGrid" /\ c.name \notin DOMAIN c.before)
              => (c.result = "ok" /\ reg.mMap = InsertName(c.before, c.name, c.factory))
        /\ (c.op = "createGrid" /\ c.name \notin DOMAIN c.before)
              => (c.result = "LookupError" /\ reg.mMap = c.before)
        /\ (c.op = "unregisterGrid" /\ c.name \notin DOMAIN c.before)
              => (c.result = "ok" /\ reg.mMap = c.before)
        /\ c.op = "isRegistered"
              => ((c.result = "true") <=> (reg.last[c.name] = "registerGrid"))
    /\ \A n \in GridTypeNames :
        (n \in DOMAIN reg.mMap) <=> (reg.last[n] = "registerGrid")

\* A registerGrid with another factory has just failed on a registered name.
C24_Witness ==
    \E t \in Threads :
        /\ BodyDone(t)
        /\ reg.th[t].op = "registerGrid"
        /\ reg.th[t].result = "KeyError"
        /\ reg.th[t].name \in DOMAIN reg.mMap
        /\ reg.mMap[reg.th[t].name] # reg.th[t].factory

InCriticalSection(t) == reg.th[t].pc \in {"find", "body", "unlock"}

RegistryAtomic ==
    /\ \A t, u \in Threads : (InCriticalSection(t) /\ InCriticalSection(u)) => t = u
    /\ \A t \in Threads : InCriticalSection(t) <=> reg.mMutex = t
    /\ \A t \in Threads :
        (reg.th[t].pc = "body" /\ reg.th[t].op \in FindingOps)
            => (reg.th[t].found <=> reg.th[t].name \in DOMAIN reg.mMap)
    /\ \A n \in GridTypeNames :
        /\ reg.registered[n] <= 1
        /\ reg.registered[n] = 1 <=> n \in DOMAIN reg.mMap

\* C25: the five operations exclude each other: of the registerGrid calls made
\* for a name since it was last absent exactly one has succeeded, whatever the
\* interleaving; the mutex is held only by a thread inside an operation, and
\* every thread waiting for the mutex gets through its call.
C25_AtomicAndReleased ==
    /\ []RegistryAtomic
    /\ \A t \in Threads : (reg.th[t].pc = "lock") ~> (reg.th[t].pc = "idle")

\* Two threads are in registerGrid for the same absent name: one has inserted
\* it and still holds the mutex, the other waits for the mutex.
C25_Witness ==
    \E t, u \in Threads :
        /\ t # u
        /\ BodyDone(t) /\ reg.th[t].op = "registerGrid" /\ reg.th[t].result = "ok"
        /\ reg.th[u].pc = "lock" /\ reg.th[u].op = "registerGrid"
        /\ reg.th[u].name = reg.th[t].name
        /\ reg.th[u].nops = 0 /\ reg.th[t].nops = 0

-----------------------------------------------------------------------------
(* Archive::readGrid on its own, on the record of one grid in a stream of   *)
(* the current or of an older format version.                               *)

\* Format versions on both sides of every version test of the per-grid read.
ReadVersions ==
    { 213, OPENVDB_FILE_VERSION_GRID_INSTANCING - 1, OPENVDB_FILE_VERSION_GRID_INSTANCING,
      OPENVDB_FILE_VERSION_NO_GRIDMAP, OPENVDB_FILE_VERSION_NODE_MASK_COMPRESSION,
      OPENVDB_FILE_VERSION }

\* The grid a record was written from.  Files older than NO_GRIDMAP hold the
\* grid's name in the descriptor only.
StoredGrid(version, tree, half) ==
    MkGrid(tree, 7,
           IF version >= OPENVDB_FILE_VERSION_NO_GRIDMAP THEN <<NameA>> ELSE <<>>,
           <<>>, IF half THEN <<TRUE>> ELSE <<>>)
\* The same grid as a writer that adds or blindly copies file_delayed_load
\* stores it.
WithDelayedLoad(grid) ==
    [grid EXCEPT !.meta = insertMeta(@, META_FILE_DELAYED_LOAD, DelayedLoadMetadata)]

\* Library versions a file of the given format version may carry in its
\* header: the current format has been written since before 6.2.
LibraryVersions(version) ==
    IF version = OPENVDB_FILE_VERSION
    THEN { <<5, 0>>, <<6, 1>>, <<6, 2>>,
           <<OPENVDB_LIBRARY_MAJOR_VERSION, OPENVDB_LIBRARY_MINOR_VERSION>> }
    ELSE { <<2, 0>> }

\* The stream a reader has opened on a file of the given version: tagged with
\* the file-level stream metadata, the version and the file's compression.
OpenedStream(version, lib, test) ==
    LET s0 == setStreamMetadataPtr(
                  Declare(NewStream, "reader", [NewStreamMetadata EXCEPT !.mTest = test]),
                  "reader", FALSE)
        s1 == setVersion(s0, lib[1], lib[2], version)
    IN  setDataCompression(s1, COMPRESS_ACTIVE_MASK)

\* The record of a grid after its descriptor: the grid's compression from
\* NODE_MASK_COMPRESSION on, the metadata, and then the transform before the
\* topology from GRID_INSTANCING on (and nothing more for an instance), the
\* topology before the transform in older files.
GridRecord(version, instance, grid, st) ==
    LET t == InputTrees[grid.tree]
        comp == IF version >= OPENVDB_FILE_VERSION_NODE_MASK_COMPRESSION
                THEN <<Tok("compression", COMPRESS_ACTIVE_MASK, 4)>> ELSE <<>>
        xf == Tok("transform", grid.xform, 8)
    IN  comp \o <<MetaTok(grid.meta)>> \o
        ( IF version >= OPENVDB_FILE_VERSION_GRID_INSTANCING
          THEN IF instance THEN <<xf>>
               ELSE <<xf, TopologyTok(grid, t)>> \o BufferToks(grid, t, st)
          ELSE <<TopologyTok(grid, t), xf>> \o BufferToks(grid, t, st) )

\* A caller is about to call Archive::readGrid with an empty grid of the
\* descriptor's type, the descriptor, and the stream standing at the record.
RGInit ==
    /\ build = "blosc"
    /\ arch = NewArchive(build)
    /\ \E version \in ReadVersions, instance \in BOOLEAN, tree \in DOMAIN InputTrees,
          half \in BOOLEAN, test \in {0, 1}, delayed \in BOOLEAN :
        \E lib \in LibraryVersions(version) :
        LET plain == StoredGrid(version, tree, half)
            grid == IF delayed THEN WithDelayedLoad(plain) ELSE plain
            st == OpenedStream(version, lib, test)
            gd == [ GridDescriptor(NameA, GridType(grid), half) EXCEPT
                      !.mInstanceParentName = IF instance THEN NameB ELSE <<>> ]
        IN  /\ inp = Scenario(<<grid>>, COMPRESS_ACTIVE_MASK, FALSE, TRUE, TRUE, TRUE,
                              FALSE, test)
            /\ strm = st
            /\ os = GridRecord(version, instance, grid, st)
            /\ rd = [ NoReader EXCEPT
                        !.pos = 1, !.gridCount = 1, !.gd = gd,
                        !.grid = setSaveFloatAsHalf([NoGrid EXCEPT !.tree = 1], half),
                        !.trees = insertMeta(@, 1, EmptyTree(gd.mGridType)) ]
            /\ entry = [ op |-> "readGrid", slot |-> st.pw.metadata,
                         done |-> FALSE, threw |-> FALSE, meta |-> BoundAtCall(st) ]
    /\ pc = "readGrid"
    /\ wr = NoWrite
    /\ descs = <<>>
    /\ err = NoError
    /\ mf = NoMappedFile
    /\ reg = NewRegistry
    /\ ss = NoStreamStates
    /\ hs = <<>> /\ hpos = 0 /\ hres = NoResult
    /\ hsrc = [kind |-> "none", seekable |-> FALSE, failAt |-> 0]

RGNext ==
    \/ ReadGridEnter
    \/ ReadGridBody
    \/ ReadGridExit

SpecReadGrid == RGInit /\ [][RGNext]_vars

\* doReadGrid has made its reads and not thrown.
GridRead == pc \in {"readGridExit", "read"}
ReadOps == [i \in DOMAIN rd.reads |-> rd.reads[i].op]

\* C30: after the metadata, a stream of format version GRID_INSTANCING or
\* later has its transform read first and then, unless the descriptor is an
\* instance, the topology and then the buffers, and nothing after the
\* transform for an instance; an older stream has the topology read first,
\* then the transform, then the buffers, instance or not.  Each read takes the
\* item next to the one before, and the grid ends up with the transform and
\* the tree that were stored.
C30_ReadOrder ==
    GridRead =>
        LET current == getFormatVersion(strm) >= OPENVDB_FILE_VERSION_GRID_INSTANCING
            stored == inp.grids[1]
        IN  /\ (current /\ isInstance(rd.gd)) => ReadOps = <<"readTransform">>
            /\ (current /\ ~isInstance(rd.gd))
                  => ReadOps = <<"readTransform", "readTopology", "readBuffers">>
            /\ ~current => ReadOps = <<"readTopology", "readTransform", "readBuffers">>
            /\ \A i \in DOMAIN rd.reads :
                /\ i > 1 => rd.reads[i].at = rd.reads[i - 1].at + 1
                /\ rd.reads[i].op = "readTransform" => rd.reads[i].k = "transform"
                /\ rd.reads[i].op = "readTopology" => rd.reads[i].k = "topology"
                /\ (rd.reads[i].op = "readBuffers" /\ InputTrees[stored.tree].leaves # <<>>)
                      => rd.reads[i].k = "leaf"
            /\ os[rd.reads[1].at - 1].k = "meta"
            /\ rd.grid.xform = stored.xform
            /\ rd.trees[1] = IF current /\ isInstance(rd.gd)
                             THEN EmptyTree(rd.gd.mGridType)
                             ELSE StoredTree(InputTrees[stored.tree], saveFloatAsHalf(stored))

\* A record of a version older than GRID_INSTANCING has been read under a
\* descriptor marked as an instance: topology, transform and buffers were read.
C30_Witness ==
    /\ pc = "read"
    /\ getFormatVersion(strm) < OPENVDB_FILE_VERSION_GRID_INSTANCING
    /\ isInstance(rd.gd)
    /\ ReadOps = <<"readTopology", "readTransform", "readBuffers">>
    /\ rd.trees[1].leaves # <<>>

\* The record read held a file_delayed_load entry.
StoredDelayedLoad == META_FILE_DELAYED_LOAD \in DOMAIN inp.grids[1].meta
TestHookSet == strm.sm["reader"].mTest # 0
\* The library version the stream is tagged with is below 6.2.
Before62 ==
    \/ strm.iw.libraryMajorVersion < 6
    \/ (strm.iw.libraryMajorVersion = 6 /\ strm.iw.libraryMinorVersion < 2)

\* C31: the grid read holds file_delayed_load only if the record held it, the
\* test hook is non-zero and the stream's library version is 6.2 or later.
\* For a library version up to 6.1 the entry is gone before the metadata is
\* copied into the grid-level stream metadata, so that copy lacks it; from
\* 6.2 on the copy keeps the entry, also when the grid drops it.
C31_DelayedLoadDropped ==
    /\ GridRead =>
        (META_FILE_DELAYED_LOAD \in DOMAIN rd.grid.meta
            <=> (StoredDelayedLoad /\ TestHookSet /\ ~Before62))
    /\ pc = "readGridExit" =>
        (META_FILE_DELAYED_LOAD \in DOMAIN strm.sm["grid"].mGridMetadata
            <=> (StoredDelayedLoad /\ ~Before62))
    /\ pc = "read" => \A k \in DOMAIN rd.grids : rd.grids[k].meta = rd.grid.meta

\* A record with the entry, from a library of version 6.2, has been read
\* without the test hook: the grid lacks the entry and the grid-level copy of
\* the metadata has it.
C31_Witness ==
    /\ pc = "readGridExit"
    /\ StoredDelayedLoad
    /\ ~TestHookSet
    /\ strm.iw.libraryMajorVersion = 6 /\ strm.iw.libraryMinorVersion = 2
    /\ META_FILE_DELAYED_LOAD \notin DOMAIN rd.grid.meta
    /\ META_FILE_DELAYED_LOAD \in DOMAIN strm.sm["grid"].mGridMetadata

-----------------------------------------------------------------------------
(* StreamState: the per-library registry of std::cout's slot indices.      *)

\* The sentinel word.  The source's value is (OPENVDB_MAGIC << 32) |
\* OPENVDB_MAGIC; only its being non-zero and equal to itself matters here.
MAGIC_NUMBER == OPENVDB_MAGIC
\* Indices that code outside the library reserves with xalloc().
MaxOtherXalloc == 2

\* std::ios_base::xalloc(): the next unused index; its word is 0 and its
\* pointer is null.
xallocIndex(cout) == Len(cout)
xalloc(cout) == Append(cout, [iword |-> 0, pword |-> 0])
RECURSIVE xallocTimes(_, _)
xallocTimes(cout, n) == IF n = 0 THEN cout ELSE xallocTimes(xalloc(cout), n - 1)

\* The search of the constructor: the first index below magicNumber whose
\* word is the sentinel, or -1.
existingArray(cout, magic) ==
    LET found == {i \in 0..(magic - 1) : cout[i + 1].iword = MAGIC_NUMBER}
    IN  IF found = {} THEN -1
        ELSE CHOOSE i \in found : \A j \in found : i <= j

\* A registry whose ten indices are all allocated afresh, in the order of
\* the constructor's else branch.
AllocatedAfresh(magic, cur) ==
    [ state |-> "alive", current |-> cur, magicNumber |-> magic,
      fileVersion |-> magic + 1, libraryMajorVersion |-> magic + 2,
      libraryMinorVersion |-> magic + 3, dataCompression |-> magic + 4,
      writeGridStatsMetadata |-> magic + 5, gridBackground |-> magic + 6,
      gridClass |-> magic + 7, mappedFile |-> magic + 8,
      metadata |-> magic + 9, halfFloat |-> magic + 10 ]

\* A constructor that never looks for a peer.
StreamStateCtorAlone(s, id) ==
    LET magic == xallocIndex(s.cout)
        c1    == [xalloc(s.cout) EXCEPT ![magic + 1] = [iword |-> MAGIC_NUMBER, pword |-> id]]
    IN  [s EXCEPT !.cout = xallocTimes(c1, 10),
                  !.regs[id] = AllocatedAfresh(magic, TRUE)]

\* StreamState::StreamState() of this library.
StreamStateCtor(s, id) ==
    LET magic == xallocIndex(s.cout)
        c1    == [xalloc(s.cout) EXCEPT ![magic + 1] = [iword |-> MAGIC_NUMBER, pword |-> id]]
        ex    == existingArray(c1, magic)
    IN  IF ex >= 0 /\ c1[ex + 1].pword # 0
        THEN LET other  == s.regs[c1[ex + 1].pword]
                 shared == [other EXCEPT !.state = "alive", !.current = TRUE,
                                         !.magicNumber = magic]
             IN  IF other.mappedFile # 0
                 THEN [s EXCEPT !.cout = c1, !.regs[id] = shared]
                 ELSE [s EXCEPT !.cout = xallocTimes(c1, 3),
                                !.regs[id] = [shared EXCEPT !.mappedFile = magic + 1,
                                                            !.metadata = magic + 2,
                                                            !.halfFloat = magic + 3]]
        ELSE [s EXCEPT !.cout = xallocTimes(c1, 10),
                       !.regs[id] = AllocatedAfresh(magic, TRUE)]

\* The constructor of a copy of the library that predates the mappedFile,
\* metadata and halfFloat slots: the same search, seven indices, and a
\* mappedFile member that reads as 0.
OldStreamStateCtor(s, id) ==
    LET magic == xallocIndex(s.cout)
        c1    == [xalloc(s.cout) EXCEPT ![magic + 1] = [iword |-> MAGIC_NUMBER, pword |-> id]]
        ex    == existingArray(c1, magic)
        none  == [mappedFile |-> 0, metadata |-> 0, halfFloat |-> 0]
        old(r) == [r EXCEPT !.state = "alive", !.current = FALSE, !.magicNumber = magic,
                            !.mappedFile = 0, !.metadata = 0, !.halfFloat = 0]
    IN  IF ex >= 0 /\ c1[ex + 1].pword # 0
        THEN [s EXCEPT !.cout = c1, !.regs[id] = old(s.regs[c1[ex + 1].pword])]
        ELSE [s EXCEPT !.cout = xallocTimes(c1, 7),
                       !.regs[id] = old(AllocatedAfresh(magic, FALSE))]

\* StreamState::~StreamState().
StreamStateDtor(s, id) ==
    LET magic == s.regs[id].magicNumber
    IN  [s EXCEPT !.cout[magic + 1] = [iword |-> 0, pword |-> 0],
                  !.regs[id].state = "dead"]

\* A copy of this library is loaded: its registry is constructed.
ConstructStreamState(id) ==
    /\ ss.regs[id].state = "none"
    /\ ss' = StreamStateCtor(ss, id)
    /\ UNCHANGED <<reg, mf, build, arch, hvars, wvars>>

\* An older copy of the library is loaded.
ConstructOldStreamState(id) ==
    /\ ss.regs[id].state = "none"
    /\ ss' = OldStreamStateCtor(ss, id)
    /\ UNCHANGED <<reg, mf, build, arch, hvars, wvars>>

\* A copy of the library is unloaded, or the process exits.
DestroyStreamState(id) ==
    /\ ss.regs[id].state = "alive"
    /\ ss' = StreamStateDtor(ss, id)
    /\ UNCHANGED <<reg, mf, build, arch, hvars, wvars>>

\* Other code of the process reserves an index of its own.
OtherXalloc ==
    /\ ss.others < MaxOtherXalloc
    /\ ss' = [ss EXCEPT !.cout = xalloc(@), !.others = @ + 1]
    /\ UNCHANGED <<reg, mf, build, arch, hvars, wvars>>

SSInit == MInit
SSNext ==
    \/ \E id \in 1..MaxStreamStates : ConstructStreamState(id)
    \/ \E id \in 1..MaxStreamStates : ConstructOldStreamState(id)
    \/ \E id \in 1..MaxStreamStates : DestroyStreamState(id)
    \/ OtherXalloc
SpecStreamState == SSInit /\ [][SSNext]_vars

SlotNames ==
    { "fileVersion", "libraryMajorVersion", "libraryMinorVersion", "dataCompression",
      "writeGridStatsMetadata", "gridBackground", "gridClass", "halfFloat",
      "mappedFile", "metadata" }
EarlySlots == SlotNames \ {"halfFloat", "mappedFile", "metadata"}
Slot(r, n) ==
    CASE n = "fileVersion" -> r.fileVersion
      [] n = "libraryMajorVersion" -> r.libraryMajorVersion
      [] n = "libraryMinorVersion" -> r.libraryMinorVersion
      [] n = "dataCompression" -> r.dataCompression
      [] n = "writeGridStatsMetadata" -> r.writeGridStatsMetadata
      [] n = "gridBackground" -> r.gridBackground
      [] n = "gridClass" -> r.gridClass
      [] n = "halfFloat" -> r.halfFloat
      [] n = "mappedFile" -> r.mappedFile
      [] n = "metadata" -> r.metadata
\* The indices of std::cout that hold the sentinel with a non-null pointer.
Peers(cout) == {i \in 0..(Len(cout) - 1) : cout[i + 1].iword = MAGIC_NUMBER /\ cout[i + 1].pword # 0}
Lowest(S) == CHOOSE i \in S : \A j \in S : i <= j
\* The indices the step from ss to ss' reserves.
NewIndices == Len(ss.cout)..(Len(ss'.cout) - 1)
\* The ten indices of a registry of this library differ from one another and
\* from the registry's own sentinel index.
SlotsDistinct ==
    \A id \in 1..MaxStreamStates :
        LET r == ss.regs[id]
        IN  r.state # "none" /\ r.current =>
                /\ \A m, n \in SlotNames : m # n => Slot(r, m) # Slot(r, n)
                /\ \A n \in SlotNames : Slot(r, n) # r.magicNumber
\* What the construction of registry id of this library does.
Adopts(id) ==
    LET r     == ss'.regs[id]
        fresh == NewIndices \ {r.magicNumber}
    IN  IF Peers(ss.cout) # {}
        THEN LET peer == ss.regs[ss.cout[Lowest(Peers(ss.cout)) + 1].pword]
             IN  /\ \A n \in EarlySlots : Slot(r, n) = Slot(peer, n)
                 /\ IF peer.mappedFile # 0
                    THEN /\ \A n \in SlotNames : Slot(r, n) = Slot(peer, n)
                         /\ fresh = {}
                    ELSE fresh = {r.mappedFile, r.metadata, r.halfFloat}
        ELSE fresh = {Slot(r, n) : n \in SlotNames}
\* What the teardown of registry id does.
ClearsOwnIndexOnly(id) ==
    LET magic == ss.regs[id].magicNumber
    IN  /\ Len(ss'.cout) = Len(ss.cout)
        /\ ss'.cout[magic + 1] = [iword |-> 0, pword |-> 0]
        /\ \A i \in 1..Len(ss.cout) : i # magic + 1 => ss'.cout[i] = ss.cout[i]
ConstructionAndTeardown ==
    \A id \in 1..MaxStreamStates :
        /\ (ss.regs[id].state = "none" /\ ss'.regs[id].state = "alive" /\ ss'.regs[id].current)
               => Adopts(id)
        /\ (ss.regs[id].state = "alive" /\ ss'.regs[id].state = "dead")
               => ClearsOwnIndexOnly(id)
\* C34: a registry constructed while a lower index of std::cout holds the
\* sentinel with a non-null pointer takes the seven early indices of that
\* peer (the one at the lowest such index), and the peer's mappedFile,
\* metadata and halfFloat indices too when the peer's mappedFile index is
\* non-zero, else three fresh ones; with no such peer all ten are fresh.  The
\* ten indices of a registry are pairwise distinct and differ from its
\* sentinel index, and teardown clears the word and the pointer at the
\* registry's own sentinel index and nothing else.
C34_AdoptOrAllocate == []SlotsDistinct /\ [][ConstructionAndTeardown]_vars
\* A registry of this library took seven indices from an older peer and
\* three fresh ones; the older peer has been torn down, and a second registry
\* of this library shares all ten indices with the first.
C34_Witness ==
    \E a, b, c \in 1..MaxStreamStates :
        /\ ss.regs[a].state = "dead" /\ ~ss.regs[a].current
        /\ ss.regs[b].state = "alive" /\ ss.regs[b].current
        /\ ss.regs[b].fileVersion = ss.regs[a].fileVersion
        /\ ss.regs[b].magicNumber > ss.regs[a].magicNumber
        /\ ss.regs[b].mappedFile > ss.regs[b].magicNumber
        /\ ss.regs[c].state = "alive" /\ ss.regs[c].current
        /\ c # b
        /\ ss.regs[c].metadata = ss.regs[b].metadata

=============================================================================
